---- MODULE Spec2Model ----
(***************************************************************************)
(* Model of olive/engine/engine.py: the Engine's model-number allocator,   *)
(* the on-disk model / run cache, the pass executor (_run_pass), the step  *)
(* runner (_run_passes), the search and no-search drivers and the          *)
(* per-accelerator loop of Engine.run.                                     *)
(*                                                                         *)
(* Two Engine objects share one cache directory.  Their runs do not        *)
(* overlap (one run at a time), but an Engine object outlives its run and  *)
(* keeps its in-memory counter and footprints for the next one.            *)
(***************************************************************************)
EXTENDS Integers, Sequences, FiniteSets, TLC

\* Largest number of model numbers the allocators may hand out in a behaviour.
MaxModelNumber == 3

\* Largest number of Engine.run calls in a behaviour.
MaxRuns == 2

\* Largest number of irregularities in a behaviour: exceptions raised by the
\* collaborators, failed file operations, killed processes, runs of an engine
\* that is not set up in the default way, and strategies that propose no step.
MaxFaults == 1

EngineIds == {"e1", "e2"}
NoEngine == "none"

\* Engine.__init__, lines 52-63: e1 is configured with a search strategy, e2 without.
EngineNoSearch(e) == e = "e2"

\* self.accelerator_specs, in order.
AcceleratorSpecs == <<"cpu-CPUExecutionProvider", "gpu-CUDAExecutionProvider">>
NoAccel == "none"

\* EXCEPTIONS_TO_RAISE and the other kinds of exception the collaborators raise.
Whitelisted == "whitelisted"
Typed == "typed"
Other == "other"
NoExc == "none"

\* The AssertionError of a failed assert statement: not one of EXCEPTIONS_TO_RAISE.
AssertionFailed == "assertion"

\* PRUNED_CONFIG, an ordinary model, and "no model" (None).
Pruned == "pruned"
RealModel == "model"
NoModel == "none"

\* ModelIds.  A derived id is <N>_<PassName>-<InputNumber>-<ConfigHash>[-<Accel>];
\* the input model's id is its hash, which carries no number (num = -1).
InputHash == -1
InputId == [num |-> InputHash, pass |-> "none", inNum |-> InputHash, cfg |-> "none", acc |-> NoAccel]
NoId == [num |-> -2, pass |-> "none", inNum |-> -2, cfg |-> "none", acc |-> NoAccel]

\* input_model_id.split("_")[0]
InputModelNumber(id) == id.num

\* The registered passes: PassA is accelerator agnostic, PassB is not.
IsAcceleratorAgnostic(p) == p = "PassA"

\* p.validate_search_point(point): PassA rejects the point "y".
ValidateSearchPoint(p, point) == ~(p = "PassA" /\ point = "y")

\* The steps a strategy proposes: each starts from the input model and lists
\* (pass, search point) pairs in registration order.
StepX == [model_id |-> InputId, passes |-> << <<"PassA", "x">>, <<"PassB", "b">> >>]
StepY == [model_id |-> InputId, passes |-> << <<"PassA", "y">>, <<"PassB", "b">> >>]
Plans == { <<StepX>>, <<StepY>>, <<StepX, StepY>> }

\* How the engine is set up when run() is called: whether self.evaluator_config
\* is set, whether the last registered pass has an evaluator of its own, whether
\* a metric of the evaluator in use has a goal that is not a threshold, and
\* whether a registered pass has a non-empty search space.
SetupDefault == [evaluator |-> TRUE, passEvaluator |-> FALSE, relativeGoal |-> FALSE, searchSpace |-> FALSE]
SetupNoEvaluator == [SetupDefault EXCEPT !.evaluator = FALSE]
SetupPassEvaluator == [SetupDefault EXCEPT !.evaluator = FALSE, !.passEvaluator = TRUE, !.relativeGoal = TRUE]
SetupSearchSpace == [SetupDefault EXCEPT !.searchSpace = TRUE]
Setups == {SetupDefault, SetupNoEvaluator, SetupPassEvaluator, SetupSearchSpace}

\* evaluator_for_pass for the last registered pass: is there an evaluator?
EvaluatorForPass(su) == su.passEvaluator \/ su.evaluator

VARIABLES
    dirs,            \* models/<ModelId>/ directories on disk
    sidecar,         \* models/<ModelId>.json : ModelId -> ModelJson | EmptyObject
    runs,            \* runs/<key>.json : key -> output_model_id
    evaluations,     \* evaluations/<key>.json : the keys that have a cached signal
    newModelNumber,  \* per engine: self._new_model_number
    initialized,     \* per engine: self._initialized
    noSearch,        \* per engine: self.no_search
    footprints,      \* per engine, per accelerator: set of footprint nodes
    nodeMetrics,     \* per engine, per accelerator: the metrics recorded on footprint nodes
    cur,             \* the engine whose run() is executing or about to be called, or NoEngine
    pc,              \* position inside Engine.run
    evaluationOnly,  \* run(evaluation_only=...)
    plan,            \* the steps the strategy will return from next_step()
    setup,           \* evaluator_config, pass evaluators, goals and search spaces of the run
    accIdx,          \* index of the accelerator_spec of the for loop
    outputs,         \* the outputs map of run(): set of accelerators with an entry
    stepIdx,         \* iter_num: number of next_step() calls made
    passIdx,         \* index of the pass of the step being executed
    model,           \* the current model of _run_passes
    modelId,         \* the current model_id of _run_passes
    modelIds,        \* model_ids collected by _run_passes
    shouldPrune,     \* should_prune of _run_passes
    signal,          \* signal of _run_passes
    ev,              \* what the last operation did (observation)
    hostProduced,    \* ModelIds for which host.run_pass returned a model (history)
    propagated,      \* run keys whose last execution left _run_pass by an exception of
                     \* host.run_pass (history)
    cleanWritten,    \* output ModelIds whose sidecar and run JSON were both written (history)
    known,           \* per engine: numbers seen at initialize() or returned to it
    runCount,        \* number of Engine.run calls so far
    faultCount,      \* number of failures so far
    thisRun,         \* observations of the run in progress
    lastRun          \* observations of the last finished run, kept when it was a
                     \* complete search run all of whose cache writes succeeded

diskVars == <<dirs, sidecar, runs, evaluations>>
engineVars == <<newModelNumber, initialized, noSearch, footprints, nodeMetrics>>
runVars == <<cur, pc, evaluationOnly, plan, setup, accIdx, outputs>>
stepVars == <<stepIdx, passIdx, model, modelId, modelIds, shouldPrune, signal>>
historyVars == <<hostProduced, propagated, cleanWritten, known, runCount, faultCount, thisRun, lastRun>>
vars == <<diskVars, engineVars, runVars, stepVars, ev, historyVars>>

----------------------------------------------------------------------------
\* Helpers

Max(S) == CHOOSE m \in S : \A n \in S : n <= m

\* Numbers N of the entries N_* of models/ (sidecars and directories).
DiskNumbers == {id.num : id \in (dirs \cup DOMAIN sidecar)} \ {InputHash}

\* Engine.initialize, lines 167-174: the counter after scanning models/.
InitialModelNumber == IF DiskNumbers = {} THEN 0 ELSE Max(DiskNumbers) + 1

\* Variant: the counter alone decides, models/ is not looked at.
GetNewModelNumberNoScan(c) == c

\* Variant: the first free number of models/ is taken, whatever the counter.
GetNewModelNumberFirstFree(c) ==
    CHOOSE n \in 0..(Cardinality(DiskNumbers)) :
        n \notin DiskNumbers /\ \A m \in 0..(n - 1) : m \in DiskNumbers

\* Engine._get_new_model_number: the number returned for counter value c.
RECURSIVE GetNewModelNumber(_)
GetNewModelNumber(c) == IF c \notin DiskNumbers THEN c ELSE GetNewModelNumber(c + 1)

\* Variant: every pass is keyed by the accelerator.
RunAccelAlways(p, acc) == acc

\* run_accel of _run_pass (line 849).
RunAccel(p, acc) == IF IsAcceleratorAgnostic(p) THEN NoAccel ELSE acc

\* get_run_json_path: the file name of a run entry.
RunKey(p, inId, cfg, ra) == <<p, InputModelNumber(inId), cfg, ra>>

\* The (pass_name, input_number, config_hash, accelerator?) tuple of a derived id.
KeyOf(id) == <<id.pass, id.inNum, id.cfg, id.acc>>

\* Variant: the run entry is never found.
LoadRunNever(key) == NoId

\* Engine._load_run
LoadRun(key) == IF key \in DOMAIN runs THEN runs[key] ELSE NoId

\* The contents of a sidecar: the empty object, or the JSON of a model.
EmptyObject == "{}"
ModelJson == "model_json"

\* Variant: PRUNED is written as the JSON of a model.
CacheModelJsonNoPruned(m) == ModelJson

\* Engine._cache_model, lines 669-672: what is written for model m.
CacheModelJson(m) == IF m = Pruned THEN EmptyObject ELSE ModelJson

\* Variant: the sidecar is never readable.
LoadModelNever(id) == NoModel

\* Engine._load_model
LoadModel(id) ==
    IF id \notin DOMAIN sidecar THEN NoModel
    ELSE IF sidecar[id] = EmptyObject THEN Pruned ELSE RealModel

\* Variant: the node is recorded without its parent.
FootprintNodeNoParent(acc, id, parent, m) == [acc |-> acc, id |-> id, parent |-> NoId, pruned |-> (m = Pruned)]

\* Footprint.record for a model produced or loaded by _run_pass.
FootprintNode(acc, id, parent, m) == [acc |-> acc, id |-> id, parent |-> parent, pruned |-> (m = Pruned)]

NoEvent == [op |-> "none", engine |-> NoEngine, noSearch |-> FALSE, acc |-> NoAccel,
            key |-> <<>>, valid |-> TRUE, hit |-> FALSE, counter |-> -1, num |-> -1,
            taken |-> {}, known |-> {}, mkdir |-> FALSE, hostCalled |-> FALSE,
            hostExc |-> NoExc, out |-> NoId, model |-> NoModel, raised |-> NoExc,
            pruned |-> FALSE, prior |-> FALSE, missing |-> "none",
            stale |-> FALSE, modelWritten |-> TRUE, runWritten |-> TRUE,
            evalKey |-> <<>>, targetCalled |-> FALSE, evalWritten |-> TRUE,
            point |-> <<>>, iter |-> 0, nth |-> 0, nodes |-> {}, again |-> FALSE]

NoRun == [status |-> "none", warm |-> FALSE, engine |-> NoEngine, noSearch |-> FALSE, evaluationOnly |-> FALSE,
          plan |-> <<>>, outputs |-> {}, processed |-> <<>>, completed |-> {}, failed |-> {},
          noOutput |-> {}, hostCalls |-> 0, allocs |-> 0, faults |-> FALSE, nodes |-> {},
          steps |-> 0, feedbacks |-> 0, exitChecks |-> 0]

----------------------------------------------------------------------------
\* Initial state: two constructed engines, an empty cache directory.

InitEngines ==
    /\ dirs = {}
    /\ sidecar = <<>>
    /\ runs = <<>>
    /\ evaluations = {}
    /\ newModelNumber = [e \in EngineIds |-> 0]
    /\ initialized = [e \in EngineIds |-> FALSE]
    /\ noSearch = [e \in EngineIds |-> EngineNoSearch(e)]
    /\ footprints = [e \in EngineIds |-> {}]
    /\ nodeMetrics = [e \in EngineIds |-> {}]
    /\ cur = NoEngine
    /\ pc = "idle"
    /\ evaluationOnly = FALSE
    /\ plan = <<>>
    /\ setup = SetupDefault
    /\ accIdx = 0
    /\ outputs = {}
    /\ stepIdx = 0
    /\ passIdx = 0
    /\ model = NoModel
    /\ modelId = NoId
    /\ modelIds = <<>>
    /\ shouldPrune = FALSE
    /\ signal = "none"
    /\ hostProduced = {}
    /\ propagated = {}
    /\ cleanWritten = {}
    /\ known = [e \in EngineIds |-> {}]
    /\ thisRun = NoRun
    /\ lastRun = NoRun
    /\ runCount = 0
    /\ faultCount = 0

Init == InitEngines /\ ev = NoEvent

----------------------------------------------------------------------------
\* n more failures happen (n = 0: none).
Fault(n) ==
    /\ faultCount + n <= MaxFaults
    /\ faultCount' = faultCount + n

----------------------------------------------------------------------------
\* Leaving a step of Engine.run

\* Stay inside the current accelerator's execution.
Goto(next, tr) ==
    /\ pc' = next
    /\ thisRun' = tr
    /\ UNCHANGED <<cur, evaluationOnly, plan, setup, accIdx, outputs, lastRun>>

\* The locals of run_search / run_no_search / _run_passes go out of scope.
DropStep ==
    /\ stepIdx' = 0
    /\ passIdx' = 0
    /\ model' = NoModel
    /\ modelId' = NoId
    /\ modelIds' = <<>>
    /\ shouldPrune' = FALSE
    /\ signal' = "none"

\* The for loop of Engine.run moves on to the next accelerator_spec.
NextAccelerator(outs, tr) ==
    /\ pc' = "accel"
    /\ accIdx' = accIdx + 1
    /\ outputs' = outs
    /\ thisRun' = [tr EXCEPT !.steps = 0, !.feedbacks = 0, !.exitChecks = 0]
    /\ DropStep
    /\ UNCHANGED <<cur, evaluationOnly, plan, setup, lastRun>>

\* A search run that returned after every accelerator's search finished and
\* that had no failed cache write: it leaves a warm cache behind.
WarmSearchRun(status, tr) ==
    /\ status = "returned"
    /\ ~tr.noSearch /\ ~tr.evaluationOnly
    /\ tr.completed = {AcceleratorSpecs[i] : i \in 1..Len(AcceleratorSpecs)}
    /\ ~tr.faults

\* Engine.run is left (returned, raised, or its process crashed).
EndRun(status, tr) ==
    /\ pc' = "idle"
    /\ cur' = NoEngine
    /\ lastRun' = IF WarmSearchRun(status, tr)
                   THEN [tr EXCEPT !.status = status, !.warm = TRUE, !.outputs = outputs]
                   ELSE [NoRun EXCEPT !.status = status]
    /\ thisRun' = NoRun
    /\ evaluationOnly' = FALSE
    /\ plan' = <<>>
    /\ setup' = SetupDefault
    /\ accIdx' = 0
    /\ outputs' = {}
    /\ DropStep

\* Variant: the catch-all also swallows the whitelisted kinds.
RaiseSwallowsAll(k, tr) ==
    NextAccelerator(outputs, [tr EXCEPT !.failed = @ \cup {AcceleratorSpecs[accIdx]}])

\* Variant: no catch-all, every exception leaves Engine.run.
RaisePropagatesAll(k, tr) == EndRun("raised", tr)

\* An exception of kind k escapes the try block of Engine.run (lines 324-327).
Raise(k, tr) ==
    IF k = Whitelisted
    THEN EndRun("raised", tr)
    ELSE NextAccelerator(outputs, [tr EXCEPT !.failed = @ \cup {AcceleratorSpecs[accIdx]}])

----------------------------------------------------------------------------
\* Engine.__init__: a new Engine object takes the place of engine e.  It is
\* constructed to be run: the next operation is its run().
NewEngine(e) ==
    /\ pc = "idle"
    /\ initialized[e]
    /\ pc' = "constructed"
    /\ cur' = e
    /\ noSearch' = [noSearch EXCEPT ![e] = EngineNoSearch(e)]
    /\ initialized' = [initialized EXCEPT ![e] = FALSE]
    /\ newModelNumber' = [newModelNumber EXCEPT ![e] = 0]
    /\ footprints' = [footprints EXCEPT ![e] = {}]
    /\ nodeMetrics' = [nodeMetrics EXCEPT ![e] = {}]
    /\ known' = [known EXCEPT ![e] = {}]
    /\ ev' = [NoEvent EXCEPT !.op = "init", !.engine = e]
    /\ UNCHANGED <<diskVars, evaluationOnly, plan, setup, accIdx, outputs, stepVars,
                   hostProduced, propagated, cleanWritten, runCount, faultCount, thisRun, lastRun>>

\* Engine.initialize, called by itself before any run: the counter is set from
\* the entries of models/ (lines 164-174).
Initialize(e) ==
    /\ pc = "idle"
    /\ ~initialized[e]
    /\ initialized' = [initialized EXCEPT ![e] = TRUE]
    /\ newModelNumber' = [newModelNumber EXCEPT ![e] = InitialModelNumber]
    /\ known' = [known EXCEPT ![e] = DiskNumbers]
    /\ ev' = [NoEvent EXCEPT !.op = "initialize", !.engine = e]
    /\ UNCHANGED <<diskVars, noSearch, footprints, nodeMetrics, runVars, stepVars, hostProduced, propagated,
                   cleanWritten, runCount, faultCount, thisRun, lastRun>>

\* Engine.run, lines 275-282: initialize() on the first run of the object,
\* then enter the loop over the accelerator specs.
StartRun(e, eo, pl, su) ==
    /\ pc = "idle" \/ (pc = "constructed" /\ cur = e)
    /\ runCount < MaxRuns
    /\ runCount' = runCount + 1
    /\ su \in Setups
    /\ su.searchSpace => noSearch[e]
    /\ Fault((IF su = SetupDefault THEN 0 ELSE 1) + (IF ~eo /\ pl = <<>> THEN 1 ELSE 0))
    /\ eo => pl = <<>>
    /\ (~eo /\ noSearch[e]) => (pl \in Plans /\ Len(pl) = 1)
    /\ initialized' = [initialized EXCEPT ![e] = TRUE]
    /\ newModelNumber' = [newModelNumber EXCEPT ![e] =
                              IF initialized[e] THEN @ ELSE InitialModelNumber]
    /\ known' = [known EXCEPT ![e] = IF initialized[e] THEN @ ELSE DiskNumbers]
    /\ cur' = e
    /\ pc' = "accel"
    /\ evaluationOnly' = eo
    /\ plan' = pl
    /\ setup' = su
    /\ accIdx' = 1
    /\ outputs' = {}
    /\ thisRun' = [NoRun EXCEPT !.status = "running", !.engine = e, !.noSearch = noSearch[e],
                                !.evaluationOnly = eo, !.plan = pl]
    /\ ev' = [NoEvent EXCEPT !.op = "run", !.engine = e]
    /\ lastRun' = IF lastRun.warm THEN lastRun ELSE NoRun
    /\ UNCHANGED <<diskVars, noSearch, footprints, nodeMetrics, stepVars, hostProduced, propagated, cleanWritten>>

\* Variant: register_pass accepts a pass with a search space when search is
\* disabled.
RegisterPassAcceptsAll(ns, su) == FALSE

\* register_pass, lines 242-243: a pass instance with a non-empty search space
\* is refused with a ValueError when search is disabled.
RegisterPassRaises(ns, su) == ns /\ su.searchSpace

\* Engine.run, lines 283-289 and the branch of lines 292-315: setup_passes
\* (which registers every pass instance, outside the try block),
\* _init_input_model (the input model's sidecar), the root footprint node.
AccelBegin ==
    /\ pc = "accel"
    /\ accIdx <= Len(AcceleratorSpecs)
    /\ LET acc == AcceleratorSpecs[accIdx]
       IN IF RegisterPassRaises(noSearch[cur], setup)
          THEN /\ EndRun("raised", thisRun)
               /\ ev' = [NoEvent EXCEPT !.op = "setup_passes", !.engine = cur, !.acc = acc,
                                        !.noSearch = noSearch[cur], !.raised = Whitelisted]
               /\ UNCHANGED <<sidecar, footprints>>
          ELSE /\ sidecar' = (InputId :> CacheModelJson(RealModel)) @@ sidecar
               /\ footprints' = [footprints EXCEPT ![cur] =
                                     @ \cup {FootprintNode(acc, InputId, NoId, RealModel)}]
               /\ Goto(IF evaluationOnly THEN "eval_only"
                       ELSE IF noSearch[cur] THEN "no_search" ELSE "search",
                       [thisRun EXCEPT !.processed = Append(@, acc),
                                       !.nodes = @ \cup {FootprintNode(acc, InputId, NoId, RealModel)}])
               /\ ev' = [NoEvent EXCEPT !.op = "accel", !.engine = cur, !.acc = acc,
                                        !.noSearch = noSearch[cur]]
               /\ UNCHANGED stepVars
    /\ UNCHANGED <<dirs, runs, evaluations, newModelNumber, initialized, noSearch, nodeMetrics,
                   hostProduced, propagated, cleanWritten, known, runCount, faultCount>>

\* Engine.run, line 340: the loop is over, outputs is returned.
Return ==
    /\ pc = "accel"
    /\ accIdx > Len(AcceleratorSpecs)
    /\ EndRun("returned", thisRun)
    /\ ev' = [NoEvent EXCEPT !.op = "return", !.engine = cur]
    /\ UNCHANGED <<diskVars, engineVars, hostProduced, propagated, cleanWritten, known, runCount, faultCount>>

\* The exception raised where a required evaluator is missing: the assert of
\* evaluation_only (line 296), the assert of resolve_goals (line 591), the
\* ValueError of run_search (line 473).
MissingEvaluatorException(where) ==
    IF where = "last_pass" THEN Whitelisted ELSE AssertionFailed

\* resolve_goals, lines 584-599: a goal that is not a threshold needs a baseline
\* from self.evaluator_config, whose absence fails the assert.
BaselineAssertFails(su) == su.relativeGoal /\ ~su.evaluator

\* Engine.run, lines 292-302: evaluation_only; the assert on
\* self.evaluator_config, then the evaluation, which may raise (the evaluator
\* facade and its cache are the subject of SpecEvaluate).
EvaluationOnly(exc) ==
    /\ pc = "eval_only"
    /\ LET acc == AcceleratorSpecs[accIdx]
           base == [NoEvent EXCEPT !.op = "evaluation_only", !.engine = cur, !.acc = acc]
       IN IF ~setup.evaluator
          THEN /\ exc = NoExc
               /\ Raise(MissingEvaluatorException("evaluation_only"), thisRun)
               /\ ev' = [base EXCEPT !.raised = MissingEvaluatorException("evaluation_only"),
                                     !.missing = "evaluation_only"]
          ELSE /\ IF exc = NoExc
                  THEN NextAccelerator(outputs \cup {acc}, [thisRun EXCEPT !.completed = @ \cup {acc}])
                  ELSE Raise(exc, thisRun)
               /\ ev' = [base EXCEPT !.raised = exc]
    /\ Fault(IF exc = NoExc THEN 0 ELSE 1)
    /\ UNCHANGED <<diskVars, engineVars, hostProduced, propagated, cleanWritten, known, runCount>>

\* run_search, lines 467-485: the evaluator of the last pass, the objectives,
\* then the strategy is initialized, iter_num = 0.
SearchBegin ==
    /\ pc = "search"
    /\ LET base == [NoEvent EXCEPT !.op = "run_search", !.engine = cur,
                                   !.acc = AcceleratorSpecs[accIdx]]
       IN IF ~EvaluatorForPass(setup)
          THEN /\ Raise(MissingEvaluatorException("last_pass"), thisRun)
               /\ ev' = [base EXCEPT !.raised = MissingEvaluatorException("last_pass"),
                                     !.missing = "last_pass"]
          ELSE IF BaselineAssertFails(setup)
          THEN /\ Raise(MissingEvaluatorException("baseline"), thisRun)
               /\ ev' = [base EXCEPT !.raised = MissingEvaluatorException("baseline"),
                                     !.missing = "baseline"]
          ELSE /\ stepIdx' = 0
               /\ passIdx' = 0
               /\ model' = NoModel
               /\ modelId' = NoId
               /\ modelIds' = <<>>
               /\ shouldPrune' = FALSE
               /\ signal' = "none"
               /\ Goto("next_step", thisRun)
               /\ ev' = base
    /\ UNCHANGED <<diskVars, engineVars, hostProduced, propagated, cleanWritten, known, runCount, faultCount>>

\* run_search, lines 486-503: iter_num += 1, next_step(), the step's first model.
NextStep ==
    /\ pc = "next_step"
    /\ stepIdx' = stepIdx + 1
    /\ IF stepIdx + 1 > Len(plan)
       THEN /\ Goto("finalize", thisRun)
            /\ UNCHANGED <<passIdx, model, modelId, modelIds, shouldPrune, signal>>
            /\ ev' = [NoEvent EXCEPT !.op = "next_step", !.engine = cur,
                                     !.acc = AcceleratorSpecs[accIdx], !.iter = stepIdx + 1,
                                     !.nth = thisRun.steps]
       ELSE /\ passIdx' = 1
            /\ model' = RealModel
            /\ modelId' = plan[stepIdx + 1].model_id
            /\ modelIds' = <<>>
            /\ shouldPrune' = FALSE
            /\ signal' = "none"
            /\ Goto("run_pass", [thisRun EXCEPT !.steps = @ + 1])
            /\ ev' = [NoEvent EXCEPT !.op = "next_step", !.engine = cur,
                                     !.acc = AcceleratorSpecs[accIdx], !.iter = stepIdx + 1,
                                     !.nth = thisRun.steps + 1,
                                     !.point = plan[stepIdx + 1].passes]
    /\ UNCHANGED <<diskVars, engineVars, hostProduced, propagated, cleanWritten, known, runCount, faultCount>>

\* run_no_search, lines 369-397: the search-space check (its message reads
\* pass_item["name"], a key the entries of self.passes do not have, so a
\* KeyError is what it would raise), the objectives (a dummy one when there is
\* no evaluator), then the single step covering every pass.
NoSearchBegin ==
    /\ pc = "no_search"
    /\ LET base == [NoEvent EXCEPT !.op = "run_no_search", !.engine = cur, !.noSearch = TRUE,
                                   !.acc = AcceleratorSpecs[accIdx]]
       IN IF setup.searchSpace
          THEN /\ Raise(Other, thisRun)
               /\ ev' = [base EXCEPT !.raised = Other]
          ELSE IF EvaluatorForPass(setup) /\ BaselineAssertFails(setup)
          THEN /\ Raise(MissingEvaluatorException("baseline"), thisRun)
               /\ ev' = [base EXCEPT !.raised = MissingEvaluatorException("baseline"),
                                     !.missing = "baseline"]
          ELSE /\ stepIdx' = 1
               /\ passIdx' = 1
               /\ model' = RealModel
               /\ modelId' = plan[1].model_id
               /\ modelIds' = <<>>
               /\ shouldPrune' = FALSE
               /\ signal' = "none"
               /\ Goto("run_pass", thisRun)
               /\ ev' = base
    /\ UNCHANGED <<diskVars, engineVars, hostProduced, propagated, cleanWritten, known, runCount, faultCount>>

----------------------------------------------------------------------------
\* The pass executor

\* What host.run_pass can do: return a model, raise an exception of one of the
\* three kinds, or never return because the process is killed.
Crash == "crash"
HostOutcomes == {NoExc, Typed, Whitelisted, Other, Crash}

\* Variant: an invalid search point is pruned in no-search mode too.
SkipHostAnyMode(valid, ns) == ~valid

\* Variant: no catch-all, only the typed failure becomes PRUNED.
HostResultTypedOnly(h, ns) ==
    IF h = NoExc THEN RealModel ELSE IF h = Typed THEN Pruned ELSE "raise"

\* Variant: with search disabled the typed failure is re-raised as well.
HostResultTypedFatal(h, ns) ==
    IF h = NoExc THEN RealModel
    ELSE IF h = Whitelisted \/ ns THEN "raise" ELSE Pruned

\* _run_pass, line 884: an invalid search point is pruned without running the
\* pass, unless search is disabled.
SkipHost(valid, ns) == ~valid /\ ~ns

\* _run_pass, lines 891-906: what becomes of host.run_pass's outcome h when
\* search is disabled (ns) or not: the output model, or "raise".
HostResult(h, ns) ==
    IF h = NoExc THEN RealModel
    ELSE IF h = Typed THEN Pruned
    ELSE IF h = Whitelisted THEN "raise"
    ELSE IF ns THEN "raise" ELSE Pruned

\* Variant: a pruned or evaluated step goes on to the exit criteria without feedback.
AfterStepSkipsFeedback(ns) == IF ns THEN "no_search_output" ELSE "check_exit"

\* Where _run_passes returns to: run_no_search (line 399) or the feedback of
\* run_search (lines 506-509).
AfterStep(ns) == IF ns THEN "no_search_output" ELSE "feedback"

\* Variant: a PRUNED model does not end the step.
StepEndsNever(m) == FALSE

\* _run_passes, lines 809-812: a PRUNED model ends the step.
StepEnds(m) == m = Pruned

\* _run_passes, lines 807-828, after _run_pass returned (m, id): a PRUNED model
\* ends the step without evaluation, otherwise the next pass or the evaluation follows.
AfterPass(m, id, nPasses, tr) ==
    /\ model' = m
    /\ modelId' = id
    /\ stepIdx' = stepIdx
    /\ signal' = "none"
    /\ IF StepEnds(m)
       THEN /\ shouldPrune' = TRUE
            /\ modelIds' = modelIds
            /\ passIdx' = passIdx
            /\ Goto(AfterStep(noSearch[cur]), tr)
       ELSE /\ shouldPrune' = FALSE
            /\ modelIds' = Append(modelIds, id)
            /\ IF passIdx = nPasses
               THEN /\ passIdx' = passIdx
                    /\ Goto("evaluate", tr)
               ELSE /\ passIdx' = passIdx + 1
                    /\ Goto("run_pass", tr)

\* _run_pass, lines 851-863: the run entry and the model's sidecar are both readable.
PassHit(e, acc, key, cached, loaded, nPasses, base) ==
    /\ footprints' = [footprints EXCEPT ![e] = @ \cup {FootprintNode(acc, cached, modelId, loaded)}]
    /\ AfterPass(loaded, cached, nPasses,
                 [thisRun EXCEPT !.nodes = @ \cup {FootprintNode(acc, cached, modelId, loaded)}])
    /\ ev' = [base EXCEPT !.hit = TRUE, !.out = cached, !.model = loaded,
                          !.pruned = (loaded = Pruned)]
    /\ UNCHANGED <<diskVars, newModelNumber, initialized, nodeMetrics, hostProduced, propagated,
                   cleanWritten, known, faultCount>>

\* _run_pass, lines 865-922: a new model number, the output directory, the
\* search-point validation, host.run_pass and its failure containment, then
\* the sidecar, the run entry and the footprint node.
PassMiss(e, acc, p, point, key, nPasses, base) ==
    LET counter == newModelNumber[e]
        n == GetNewModelNumber(counter)
        outId == [num |-> n, pass |-> p, inNum |-> InputModelNumber(modelId),
                  cfg |-> point, acc |-> RunAccel(p, acc)]
        alloc == [base EXCEPT !.counter = counter, !.num = n, !.taken = DiskNumbers,
                              !.known = known[e], !.out = outId]
        tr0 == [thisRun EXCEPT !.allocs = @ + 1]
        skipHost == SkipHost(ValidateSearchPoint(p, point), noSearch[e])
    IN
    /\ n < MaxModelNumber
    /\ \E mkdirOk \in BOOLEAN, h \in HostOutcomes, modelWritten \in BOOLEAN, runWritten \in BOOLEAN :
        IF ~mkdirOk
        THEN \* line 880 raises (an OSError): nothing is on disk, the counter has moved on
             /\ h = NoExc /\ modelWritten /\ runWritten
             /\ Fault(1)
             /\ newModelNumber' = [newModelNumber EXCEPT ![e] = n + 1]
             /\ known' = [known EXCEPT ![e] = @ \cup {n}]
             /\ ev' = [alloc EXCEPT !.raised = Other]
             /\ Raise(Other, tr0)
             /\ UNCHANGED <<diskVars, initialized, footprints, nodeMetrics, hostProduced, propagated, cleanWritten>>
        ELSE
        /\ dirs' = dirs \cup {outId}
        /\ IF skipHost
           THEN \* lines 884-885
                /\ h = NoExc
                /\ Fault((IF modelWritten THEN 0 ELSE 1) + (IF runWritten THEN 0 ELSE 1))
                /\ sidecar' = IF modelWritten THEN (outId :> CacheModelJson(Pruned)) @@ sidecar ELSE sidecar
                /\ runs' = IF runWritten THEN (key :> outId) @@ runs ELSE runs
                /\ newModelNumber' = [newModelNumber EXCEPT ![e] = n + 1]
                /\ known' = [known EXCEPT ![e] = @ \cup {n}]
                /\ footprints' = [footprints EXCEPT ![e] = @ \cup {FootprintNode(acc, outId, modelId, Pruned)}]
                /\ ev' = [alloc EXCEPT !.mkdir = TRUE, !.model = Pruned, !.pruned = TRUE,
                                       !.modelWritten = modelWritten, !.runWritten = runWritten]
                /\ AfterPass(Pruned, outId, nPasses,
                             [tr0 EXCEPT !.faults = @ \/ ~modelWritten \/ ~runWritten,
                                         !.nodes = @ \cup {FootprintNode(acc, outId, modelId, Pruned)}])
                /\ cleanWritten' = IF modelWritten /\ runWritten
                                   THEN cleanWritten \cup {outId} ELSE cleanWritten
                /\ propagated' = propagated \ {key}
                /\ UNCHANGED <<initialized, nodeMetrics, hostProduced>>
           ELSE IF h = Crash
           THEN \* the process dies inside host.run_pass: the Engine object is gone
                /\ modelWritten /\ runWritten
                /\ Fault(1)
                /\ newModelNumber' = [newModelNumber EXCEPT ![e] = 0]
                /\ known' = [known EXCEPT ![e] = {}]
                /\ initialized' = [initialized EXCEPT ![e] = FALSE]
                /\ footprints' = [footprints EXCEPT ![e] = {}]
                /\ nodeMetrics' = [nodeMetrics EXCEPT ![e] = {}]
                /\ ev' = [alloc EXCEPT !.mkdir = TRUE, !.hostCalled = TRUE, !.hostExc = Crash]
                /\ EndRun("crashed", [tr0 EXCEPT !.hostCalls = @ + 1])
                /\ UNCHANGED <<sidecar, runs, hostProduced, propagated, cleanWritten>>
           ELSE IF HostResult(h, noSearch[e]) = "raise"
           THEN \* lines 896-898 and 905-906: the exception leaves _run_pass
                /\ modelWritten /\ runWritten
                /\ Fault(1)
                /\ newModelNumber' = [newModelNumber EXCEPT ![e] = n + 1]
                /\ known' = [known EXCEPT ![e] = @ \cup {n}]
                /\ ev' = [alloc EXCEPT !.mkdir = TRUE, !.hostCalled = TRUE, !.hostExc = h,
                                       !.raised = h]
                /\ Raise(h, [tr0 EXCEPT !.hostCalls = @ + 1])
                /\ propagated' = propagated \cup {key}
                /\ UNCHANGED <<sidecar, runs, initialized, footprints, nodeMetrics,
                               hostProduced, cleanWritten>>
           ELSE \* the host returned a model, or the failure became PRUNED
                LET m == HostResult(h, noSearch[e])
                    node == FootprintNode(acc, outId, modelId, m)
                IN
                /\ Fault((IF h = NoExc THEN 0 ELSE 1) + (IF modelWritten THEN 0 ELSE 1)
                         + (IF runWritten THEN 0 ELSE 1))
                /\ sidecar' = IF modelWritten THEN (outId :> CacheModelJson(m)) @@ sidecar ELSE sidecar
                /\ runs' = IF runWritten THEN (key :> outId) @@ runs ELSE runs
                /\ newModelNumber' = [newModelNumber EXCEPT ![e] = n + 1]
                /\ known' = [known EXCEPT ![e] = @ \cup {n}]
                /\ footprints' = [footprints EXCEPT ![e] = @ \cup {node}]
                /\ hostProduced' = IF h = NoExc THEN hostProduced \cup {outId} ELSE hostProduced
                /\ propagated' = propagated \ {key}
                /\ cleanWritten' = IF modelWritten /\ runWritten
                                   THEN cleanWritten \cup {outId} ELSE cleanWritten
                /\ ev' = [alloc EXCEPT !.mkdir = TRUE, !.hostCalled = TRUE, !.hostExc = h,
                                       !.model = m, !.pruned = (m = Pruned),
                                       !.modelWritten = modelWritten, !.runWritten = runWritten]
                /\ AfterPass(m, outId, nPasses,
                             [tr0 EXCEPT !.hostCalls = @ + 1,
                                         !.faults = @ \/ ~modelWritten \/ ~runWritten,
                                         !.nodes = @ \cup {node}])
                /\ UNCHANGED <<initialized, nodeMetrics>>

\* Variant: a run entry is a hit, whatever becomes of its model's sidecar.
IsCacheHitOnRunEntry(cached, loaded) == cached # NoId

\* _run_pass, lines 851-854: a hit needs the run entry and the model it names.
IsCacheHit(cached, loaded) == cached # NoId /\ loaded # NoModel

\* Engine._run_pass for the pass at passIdx of the current step.
RunPass ==
    /\ pc = "run_pass"
    /\ LET e == cur
           acc == AcceleratorSpecs[accIdx]
           passes == plan[stepIdx].passes
           p == passes[passIdx][1]
           point == passes[passIdx][2]
           key == RunKey(p, modelId, point, RunAccel(p, acc))
           cached == LoadRun(key)
           loaded == IF cached # NoId THEN LoadModel(cached) ELSE NoModel
           base == [NoEvent EXCEPT !.op = "run_pass", !.engine = e, !.noSearch = noSearch[e],
                                   !.acc = acc, !.key = key,
                                   !.valid = ValidateSearchPoint(p, point),
                                   !.prior = \E c \in cleanWritten : KeyOf(c) = key,
                                   !.stale = (cached # NoId /\ loaded = NoModel),
                                   !.again = (key \in propagated)]
       IN IF IsCacheHit(cached, loaded)
          THEN PassHit(e, acc, key, cached, loaded, Len(passes), base)
          ELSE PassMiss(e, acc, p, point, key, Len(passes), base)
    /\ UNCHANGED <<evaluations, noSearch, runCount>>

----------------------------------------------------------------------------
\* The rest of a step

\* _run_passes, lines 815-823: the evaluation of the step's last model, skipped
\* when search is disabled and there is no evaluator; the evaluator may raise,
\* and the write of its signal to the evaluation cache may fail (written).
Evaluate(exc, written) ==
    /\ pc = "evaluate"
    /\ exc \in {NoExc, Whitelisted, Other}
    /\ (noSearch[cur] /\ ~EvaluatorForPass(setup)) => (exc = NoExc /\ written)
    /\ exc # NoExc => written
    /\ IF exc = NoExc
       THEN /\ signal' = IF noSearch[cur] /\ ~EvaluatorForPass(setup) THEN "none" ELSE "signal"
            /\ Goto(AfterStep(noSearch[cur]), thisRun)
            /\ UNCHANGED <<stepIdx, passIdx, model, modelId, modelIds, shouldPrune>>
       ELSE Raise(exc, thisRun)
    /\ ev' = [NoEvent EXCEPT !.op = "evaluate", !.engine = cur, !.acc = AcceleratorSpecs[accIdx],
                             !.raised = exc, !.out = modelId, !.evalWritten = written]
    /\ Fault((IF exc = NoExc THEN 0 ELSE 1) + (IF written THEN 0 ELSE 1))
    /\ UNCHANGED <<diskVars, engineVars, hostProduced, propagated, cleanWritten, known, runCount>>

\* run_search, line 509: record_feedback_signal(search_point, signal, model_ids, should_prune).
RecordFeedback ==
    /\ pc = "feedback"
    /\ Goto("check_exit", [thisRun EXCEPT !.feedbacks = @ + 1])
    /\ ev' = [NoEvent EXCEPT !.op = "record_feedback_signal", !.engine = cur,
                             !.acc = AcceleratorSpecs[accIdx], !.pruned = shouldPrune,
                             !.point = plan[stepIdx].passes, !.nth = thisRun.steps]
    /\ UNCHANGED <<diskVars, engineVars, stepVars, hostProduced, propagated, cleanWritten, known, runCount, faultCount>>

\* run_search, lines 511-512: check_exit_criteria returns, or raises its
\* terminal condition.
CheckExitCriteria(terminal) ==
    /\ pc = "check_exit"
    /\ IF terminal
       THEN Raise(Other, thisRun)
       ELSE Goto("next_step", [thisRun EXCEPT !.exitChecks = @ + 1]) /\ UNCHANGED stepVars
    /\ ev' = [NoEvent EXCEPT !.op = "check_exit_criteria", !.engine = cur,
                             !.acc = AcceleratorSpecs[accIdx],
                             !.raised = IF terminal THEN Other ELSE NoExc,
                             !.iter = stepIdx, !.nth = thisRun.steps]
    /\ Fault(IF terminal THEN 1 ELSE 0)
    /\ UNCHANGED <<diskVars, engineVars, hostProduced, propagated, cleanWritten, known, runCount>>

\* run_search, lines 514-531, and Engine.run, lines 322-323: the footprints are
\* written and the frontier is the accelerator's output.
Finalize ==
    /\ pc = "finalize"
    /\ LET acc == AcceleratorSpecs[accIdx]
       IN /\ NextAccelerator(outputs \cup {acc}, [thisRun EXCEPT !.completed = @ \cup {acc}])
          /\ ev' = [NoEvent EXCEPT !.op = "finalize", !.engine = cur, !.acc = acc,
                                   !.nodes = {n \in footprints[cur] : n.acc = acc}]
    /\ UNCHANGED <<diskVars, engineVars, hostProduced, propagated, cleanWritten, known, runCount, faultCount>>

\* run_no_search, lines 405-445, and Engine.run, lines 311-313: only the last
\* pass has an output name, so an output exists when every pass gave a model.
NoSearchOutput ==
    /\ pc = "no_search_output"
    /\ LET acc == AcceleratorSpecs[accIdx]
           hasOutput == Len(modelIds) = Len(plan[stepIdx].passes)
       IN /\ NextAccelerator(IF hasOutput THEN outputs \cup {acc} ELSE outputs,
                             [thisRun EXCEPT !.completed = @ \cup {acc},
                                             !.noOutput = IF hasOutput THEN @ ELSE @ \cup {acc}])
          /\ ev' = [NoEvent EXCEPT !.op = "no_search_output", !.engine = cur, !.acc = acc,
                                   !.noSearch = TRUE, !.pruned = shouldPrune]
    /\ UNCHANGED <<diskVars, engineVars, hostProduced, propagated, cleanWritten, known, runCount, faultCount>>

----------------------------------------------------------------------------
Next ==
    \/ \E e \in EngineIds : NewEngine(e)
    \/ \E e \in EngineIds : Initialize(e)
    \/ \E e \in EngineIds, eo \in BOOLEAN, pl \in Plans \cup {<<>>}, su \in Setups :
           StartRun(e, eo, pl, su)
    \/ AccelBegin
    \/ Return
    \/ \E exc \in {NoExc, Whitelisted, Other} : EvaluationOnly(exc)
    \/ SearchBegin
    \/ NextStep
    \/ NoSearchBegin
    \/ RunPass
    \/ \E exc \in {NoExc, Whitelisted, Other}, written \in BOOLEAN : Evaluate(exc, written)
    \/ RecordFeedback
    \/ \E terminal \in BOOLEAN : CheckExitCriteria(terminal)
    \/ Finalize
    \/ NoSearchOutput

Spec == Init /\ [][Next]_vars

\* A step of a run in progress: once run() is called the interpreter goes on
\* until run() is left.
RunStep ==
    \/ AccelBegin
    \/ Return
    \/ \E exc \in {NoExc, Whitelisted, Other} : EvaluationOnly(exc)
    \/ SearchBegin
    \/ NextStep
    \/ NoSearchBegin
    \/ RunPass
    \/ \E exc \in {NoExc, Whitelisted, Other}, written \in BOOLEAN : Evaluate(exc, written)
    \/ RecordFeedback
    \/ \E terminal \in BOOLEAN : CheckExitCriteria(terminal)
    \/ Finalize
    \/ NoSearchOutput

\* Every call of run() comes to its end: behaviours in which a run stops half
\* way, for want of a model number below MaxModelNumber or of a failure within
\* MaxFaults, are not behaviours of the program.
RunsEnd == []<>(pc = "idle")

SpecLive == Spec /\ WF_vars(RunStep) /\ RunsEnd

----------------------------------------------------------------------------
\* The evaluator facade (_evaluate_model) and its cache, called for a few
\* models under every accelerator by both engines.

\* The parts of a ModelId string that follow its number, pass, input number
\* and config hash: its accelerator suffix, if it has one.
IdSuffix(id) == IF id.acc = NoAccel THEN <<>> ELSE <<id.acc>>

\* _evaluate_model, lines 975-980: model_id_with_accelerator, the ModelId with
\* "-<accelerator_spec>" appended unless the id ends with it.  The key is the
\* id without its suffix, and the suffixes that follow it.
EvaluationKey(id, acc) ==
    <<[id EXCEPT !.acc = NoAccel],
      IF id.acc = acc THEN IdSuffix(id) ELSE IdSuffix(id) \o <<acc>> >>

\* Variant: the cached evaluation is never found.
LoadEvaluationNever(key) == FALSE

\* Engine._load_evaluation: is there a readable signal for the key?
LoadEvaluation(key) == key \in evaluations

\* FootprintNodeMetric recorded on the node of model id in the accelerator's footprint.
FootprintNodeMetric(acc, id) == [acc |-> acc, id |-> id, is_goals_met |-> FALSE]

\* Engine._evaluate_model, lines 982-1013, for model id under accelerator acc
\* by engine e: a cached signal is returned without the target; otherwise
\* target.evaluate_model runs (and may raise exc), and its signal is written
\* to the evaluation cache unless the write fails.  A returned signal is
\* recorded on the footprint node.
EvaluateModel(e, id, acc, exc, written, base) ==
    LET key == EvaluationKey(id, acc)
        hit == LoadEvaluation(key)
    IN /\ hit => (exc = NoExc /\ written)
       /\ exc # NoExc => written
       /\ Fault((IF exc = NoExc THEN 0 ELSE 1) + (IF written THEN 0 ELSE 1))
       /\ evaluations' = IF ~hit /\ exc = NoExc /\ written
                          THEN evaluations \cup {key} ELSE evaluations
       /\ nodeMetrics' = IF exc = NoExc
                          THEN [nodeMetrics EXCEPT ![e] = @ \cup {FootprintNodeMetric(acc, id)}]
                          ELSE nodeMetrics
       /\ ev' = [base EXCEPT !.raised = exc, !.out = id, !.evalKey = key, !.hit = hit,
                             !.prior = (key \in evaluations),
                             !.targetCalled = ~hit, !.evalWritten = written]

\* The models that are evaluated: the input model, whose id has no accelerator
\* suffix, and the output of PassB under the first accelerator, whose id ends
\* with that accelerator.
EvaluatedIds ==
    {InputId,
     [num |-> 0, pass |-> "PassB", inNum |-> InputHash, cfg |-> "b", acc |-> AcceleratorSpecs[1]]}

\* A caller (run, resolve_goals, _run_passes) evaluates model id under
\* accelerator acc.
EvaluateModelCall(e, id, acc, exc, written) ==
    /\ pc = "idle"
    /\ exc \in {NoExc, Whitelisted, Other}
    /\ EvaluateModel(e, id, acc, exc, written,
                     [NoEvent EXCEPT !.op = "evaluate_model", !.engine = e, !.acc = acc])
    /\ UNCHANGED <<dirs, sidecar, runs, newModelNumber, initialized, noSearch, footprints,
                   runVars, stepVars, hostProduced, propagated, cleanWritten, known, runCount,
                   thisRun, lastRun>>

NextEvaluate ==
    \E e \in EngineIds, id \in EvaluatedIds, i \in 1..Len(AcceleratorSpecs),
       exc \in {NoExc, Whitelisted, Other}, written \in BOOLEAN :
        EvaluateModelCall(e, id, AcceleratorSpecs[i], exc, written)

SpecEvaluate == Init /\ [][NextEvaluate]_vars


----------------------------------------------------------------------------
\* Goal and objective resolution (resolve_goals, resolve_objectives), applied
\* to bounded lists of metrics.  Values are integers; a resolved goal is held
\* in hundredths so that the percent kinds stay integral.

\* Largest number of metrics of an evaluator.
MaxMetrics == 2

\* Largest number of sub-metrics of a metric.
MaxSubTypes == 2

\* Goal values range over 0..MaxGoalValue.
MaxGoalValue == 2

\* Baseline values range over -MaxBaseline..MaxBaseline.
MaxBaseline == 2

\* The divisor of the percent kinds (lines 622 and 624).
Percent == 100

GoalTypes == {"threshold", "max-degradation", "min-improvement",
              "percent-max-degradation", "percent-min-improvement"}

\* A sub-metric without goal (goal is None), and a value that is None.
NoGoal == [type |-> "none", value |-> 0]
NoValue == [set |-> FALSE, value |-> 0]
Value(x) == [set |-> TRUE, value |-> x]

\* joint_metric_key(metric.name, sub_type.name); names are numbers here.
JointMetricKey(m, st) == <<m, st>>

\* The sub-metric priorities metrics are given.
Priorities == {-1, 0, 1, 2}

SubType(n, prio, hib, goal) ==
    [name |-> n, priority |-> prio, higher_is_better |-> hib, goal |-> goal]

\* metric.get_sub_type_info(...), lines 575-579: the sub-metrics it reports on
\* are those of priority > 0.
GetSubTypeInfo(metric) == SelectSeq(metric.sub_types, LAMBDA st : st.priority > 0)

\* Variant: a threshold goal asks for the baseline, too.
RECURSIVE SubGoalsNeedBaselineAnyGoal(_)
SubGoalsNeedBaselineAnyGoal(subs) ==
    IF subs = <<>> THEN FALSE
    ELSE IF Head(subs).goal = NoGoal THEN FALSE
    ELSE TRUE

\* resolve_goals, lines 587-597, the inner loop over one metric's sub-goals:
\* it stops at the first sub-metric without goal and asks for the baseline at
\* the first goal that is not a threshold.
RECURSIVE SubGoalsNeedBaseline(_)
SubGoalsNeedBaseline(subs) ==
    IF subs = <<>> THEN FALSE
    ELSE IF Head(subs).goal = NoGoal THEN FALSE
    ELSE IF Head(subs).goal.type # "threshold" THEN TRUE
    ELSE SubGoalsNeedBaseline(Tail(subs))

\* resolve_goals, lines 584-599: is the baseline evaluation asked for?
NeedsBaseline(metrics) ==
    \E i \in 1..Len(metrics) : SubGoalsNeedBaseline(GetSubTypeInfo(metrics[i]))

\* Variant: degradation and improvement exchanged.
ResolveGoalValueSwapped(type, b, v, m) ==
    CASE type = "threshold" -> Percent * v
      [] type = "max-degradation" -> Percent * (b + m * v)
      [] type = "min-improvement" -> Percent * (b - m * v)
      [] type = "percent-max-degradation" -> b * (Percent + m * v)
      [] type = "percent-min-improvement" -> b * (Percent - m * v)

\* resolve_goals, lines 615-624: the resolved goal in hundredths, for baseline
\* b, goal value v and multiplier m.
ResolveGoalValue(type, b, v, m) ==
    CASE type = "threshold" -> Percent * v
      [] type = "max-degradation" -> Percent * (b - m * v)
      [] type = "min-improvement" -> Percent * (b + m * v)
      [] type = "percent-max-degradation" -> b * (Percent - m * v)
      [] type = "percent-min-improvement" -> b * (Percent + m * v)

\* The sub-metrics of a metric, and the keys of all sub-metrics.
SubTypeSet(metric) == {metric.sub_types[j] : j \in 1..Len(metric.sub_types)}

MetricKeys(metrics) ==
    UNION {{JointMetricKey(metrics[i].name, st.name) : st \in SubTypeSet(metrics[i])} :
              i \in 1..Len(metrics)}

\* The sub-metric a key names.
SubTypeOf(metrics, key) ==
    CHOOSE st \in UNION {SubTypeSet(metrics[i]) :
                             i \in {k \in 1..Len(metrics) : metrics[k].name = key[1]}} :
        st.name = key[2]

\* The keys of the sub-metrics resolve_goals looks at (lines 573-579).
ResolvedKeys(metrics) ==
    UNION {{JointMetricKey(metrics[i].name, st.name) :
               st \in {GetSubTypeInfo(metrics[i])[j] : j \in 1..Len(GetSubTypeInfo(metrics[i]))}} :
              i \in 1..Len(metrics)}

\* Engine.resolve_goals for an input model every baseline value of which is b:
\* the exception raised if any, the number of baseline evaluations, and the
\* resolved goals by key.  Without baseline the result is the empty dict
\* (line 602); with one, reading goal.type of a sub-metric without goal
\* (line 615) is an AttributeError.
ResolveGoals(metrics, hasEvaluator, b) ==
    IF ~NeedsBaseline(metrics)
    THEN [status |-> NoExc, evaluations |-> 0, goals |-> <<>>]
    ELSE IF ~hasEvaluator
    THEN [status |-> AssertionFailed, evaluations |-> 0, goals |-> <<>>]
    ELSE IF \E k \in ResolvedKeys(metrics) : SubTypeOf(metrics, k).goal = NoGoal
    THEN [status |-> Whitelisted, evaluations |-> 1, goals |-> <<>>]
    ELSE [status |-> NoExc, evaluations |-> 1,
          goals |-> [k \in ResolvedKeys(metrics) |->
                        LET st == SubTypeOf(metrics, k)
                        IN ResolveGoalValue(st.goal.type, b, st.goal.value,
                                            IF st.higher_is_better THEN 1 ELSE -1)]]

\* sorted(..., key=priority), a stable sort: x goes behind every element whose
\* priority is not greater.
RECURSIVE InsertByPriority(_, _)
InsertByPriority(x, sorted) ==
    IF sorted = <<>> THEN <<x>>
    ELSE IF Head(sorted).priority <= x.priority
         THEN <<Head(sorted)>> \o InsertByPriority(x, Tail(sorted))
         ELSE <<x>> \o sorted

\* Variant: the objectives stay in declaration order.
SortByPriorityNoSort(objs) == objs

RECURSIVE SortByPriority(_)
SortByPriority(objs) ==
    IF objs = <<>> THEN <<>>
    ELSE InsertByPriority(objs[Len(objs)], SortByPriority(SubSeq(objs, 1, Len(objs) - 1)))

\* resolve_objectives, lines 547-556: the objectives in declaration order.
RECURSIVE ObjectivesOfSubTypes(_, _, _)
ObjectivesOfSubTypes(mname, subs, goals) ==
    IF subs = <<>> THEN <<>>
    ELSE LET st == Head(subs)
             key == JointMetricKey(mname, st.name)
             rest == ObjectivesOfSubTypes(mname, Tail(subs), goals)
         IN IF st.priority <= 0 THEN rest
            ELSE <<[key |-> key, higher_is_better |-> st.higher_is_better,
                    goal |-> IF key \in DOMAIN goals THEN Value(goals[key]) ELSE NoValue,
                    priority |-> st.priority]>> \o rest

RECURSIVE ObjectivesOf(_, _)
ObjectivesOf(metrics, goals) ==
    IF metrics = <<>> THEN <<>>
    ELSE ObjectivesOfSubTypes(Head(metrics).name, Head(metrics).sub_types, goals)
         \o ObjectivesOf(Tail(metrics), goals)

\* Engine.resolve_objectives: the ranked ObjectiveDict as the sequence of its
\* items, or no dict when resolve_goals raised.
ResolveObjectives(metrics, hasEvaluator, b) ==
    LET r == ResolveGoals(metrics, hasEvaluator, b)
    IN [status |-> r.status, evaluations |-> r.evaluations, goals |-> r.goals,
        objectives |-> IF r.status = NoExc
                       THEN SortByPriority(ObjectivesOf(metrics, r.goals)) ELSE <<>>]

\* The sub-metrics a metric list is built from: a priority, a direction, a goal.
StructureSubTypes ==
    {[priority |-> 1, higher_is_better |-> TRUE, goal |-> g] :
        g \in {NoGoal, [type |-> "threshold", value |-> 1], [type |-> "max-degradation", value |-> 1]}}

PrioritySubTypes ==
    {[priority |-> p, higher_is_better |-> TRUE, goal |-> NoGoal] : p \in Priorities}

ValueSubTypes ==
    {[priority |-> 1, higher_is_better |-> hib, goal |-> [type |-> t, value |-> v]] :
        hib \in BOOLEAN, t \in GoalTypes, v \in 0..MaxGoalValue}

\* Metric i with the sub-metrics of choices, numbered in order.
MetricOf(i, choices) ==
    [name |-> i,
     sub_types |-> [j \in 1..Len(choices) |->
                       SubType(j, choices[j].priority, choices[j].higher_is_better, choices[j].goal)]]

\* The lists of 1..ns sub-metrics from S, and the metric list that gives
\* metric i the sub-metrics f[i].
SubTypeLists(S, ns) == UNION {[1..n -> S] : n \in 1..ns}
MetricList(f) == [i \in DOMAIN f |-> MetricOf(i, f[i])]

\* resolve_objectives is called once, for the evaluator's metrics: self is
\* with or without evaluator_config, and b is what the baseline evaluation
\* measures for every sub-metric.
ResolveObjectivesCall(metrics, hasEvaluator, b) ==
    /\ ev = NoEvent
    /\ ev' = [op |-> "resolve_objectives", metrics |-> metrics,
              hasEvaluator |-> hasEvaluator, baseline |-> b,
              result |-> ResolveObjectives(metrics, hasEvaluator, b)]
    /\ UNCHANGED <<diskVars, engineVars, runVars, stepVars, historyVars>>

\* Every goal structure, with and without self.evaluator_config.
ResolveStructures ==
    \E k \in 0..MaxMetrics, he \in BOOLEAN :
        \E f \in [1..k -> SubTypeLists(StructureSubTypes, MaxSubTypes)] :
            ResolveObjectivesCall(MetricList(f), he, 1)

\* Every priority assignment: within one metric, and across metrics of one
\* sub-metric each.
ResolvePriorities ==
    \/ \E f \in [1..1 -> SubTypeLists(PrioritySubTypes, MaxSubTypes + 1)] :
           ResolveObjectivesCall(MetricList(f), TRUE, 1)
    \/ \E k \in 0..(MaxMetrics + 1) :
           \E f \in [1..k -> SubTypeLists(PrioritySubTypes, 1)] :
               ResolveObjectivesCall(MetricList(f), TRUE, 1)

\* Every goal kind, value, direction and baseline, behind a sub-metric that
\* needs the baseline.
ResolveValues ==
    \E c \in ValueSubTypes, b \in (0 - MaxBaseline)..MaxBaseline :
        ResolveObjectivesCall(<<MetricOf(1, <<[priority |-> 1, higher_is_better |-> TRUE,
                                               goal |-> [type |-> "max-degradation", value |-> 1]], c>>)>>,
                              TRUE, b)

\* One call, on a fresh engine.
NextGoals ==
    /\ ev = NoEvent
    /\ \/ ResolveStructures
       \/ ResolvePriorities
       \/ ResolveValues

SpecGoals == Init /\ [][NextGoals]_vars

----------------------------------------------------------------------------
\* The accelerator specs of Engine.__init__ (lines 83-123), applied to bounded
\* targets: a list of devices (or none), a list of execution providers (or
\* none), and what AcceleratorLookup reports each device to support.

\* Largest number of accelerators of a target.
MaxDevices == 2

\* Largest number of declared execution providers.
MaxProviders == 2

Devices == {"cpu", "gpu", "npu"}
CPUExecutionProvider == "CPUExecutionProvider"
ExecutionProviders == {CPUExecutionProvider, "CUDAExecutionProvider", "QNNExecutionProvider"}

\* An argument that is None, and one that is the list l.
NotGiven == [given |-> FALSE, list |-> <<>>]
Given(l) == [given |-> TRUE, list |-> l]

\* Lines 83-97: the execution providers in use, or none when an AzureML
\* target comes without (a ValueError); a local target is asked for its
\* own list, which is taken as declared here.
ProvidersInUse(declared, systemType) ==
    IF declared.given THEN declared
    ELSE IF systemType = "AzureML" THEN NotGiven
    ELSE Given(<<CPUExecutionProvider>>)

\* Lines 100-103: a target without accelerators is given the CPU.
AcceleratorsInUse(accelerators) ==
    IF accelerators.given THEN accelerators.list ELSE <<"cpu">>

\* Line 108
IsCpuAvailable(accelerators) == \E i \in 1..Len(accelerators) : accelerators[i] = "cpu"

\* Variant: a provider a device does not support stays available for later devices.
PairProviderKeepsRejected(at, device, ep, supported, cpuAvailable, st) ==
    IF ep \notin supported
    THEN [st EXCEPT !.notSupported = @ \cup {ep}]
    ELSE IF ep = CPUExecutionProvider /\ device # "cpu" /\ cpuAvailable
    THEN st
    ELSE [st EXCEPT !.specs = Append(@, [device |-> device, ep |-> ep, at |-> at]),
                    !.processed = @ \cup {ep}]

\* Variant: the CPU provider is paired with the first device that supports it.
PairProviderNoCpuRule(at, device, ep, supported, cpuAvailable, st) ==
    IF ep \notin supported
    THEN [st EXCEPT !.notSupported = @ \cup {ep}, !.processed = @ \cup {ep}]
    ELSE [st EXCEPT !.specs = Append(@, [device |-> device, ep |-> ep, at |-> at]),
                    !.processed = @ \cup {ep}]

\* Lines 114-121, the body of the inner loop for provider ep at the device in
\* position at: rejected, ignored, or paired.
PairProvider(at, device, ep, supported, cpuAvailable, st) ==
    IF ep \notin supported
    THEN [st EXCEPT !.notSupported = @ \cup {ep}, !.processed = @ \cup {ep}]
    ELSE IF ep = CPUExecutionProvider /\ device # "cpu" /\ cpuAvailable
    THEN st
    ELSE [st EXCEPT !.specs = Append(@, [device |-> device, ep |-> ep, at |-> at]),
                    !.processed = @ \cup {ep}]

\* Lines 113-121, the inner loop over eps.
RECURSIVE PairProviders(_, _, _, _, _, _)
PairProviders(at, device, eps, supported, cpuAvailable, st) ==
    IF eps = <<>> THEN st
    ELSE PairProviders(at, device, Tail(eps), supported, cpuAvailable,
                       PairProvider(at, device, Head(eps), supported, cpuAvailable, st))

\* Lines 109-121, the loop over the accelerators from position at on; eps is
\* taken from the providers not processed when the device's turn comes (line 112).
RECURSIVE PairDevices(_, _, _, _, _)
PairDevices(at, accelerators, providers, lookup, st) ==
    IF at > Len(accelerators) THEN st
    ELSE PairDevices(at + 1, accelerators, providers, lookup,
                     PairProviders(at, accelerators[at],
                                   SelectSeq(providers, LAMBDA ep : ep \notin st.processed),
                                   lookup[accelerators[at]], IsCpuAvailable(accelerators), st))

\* Variant: an empty list of specs is accepted.
AssertAcceleratorSpecsNever(specs) == NoExc

\* Line 123
AssertAcceleratorSpecs(specs) == IF specs = <<>> THEN AssertionFailed ELSE NoExc

\* Engine.__init__, lines 83-123: the exception raised if any, and
\* self.accelerator_specs (with the position of each spec's device in the
\* target's list).
Construct(inp) ==
    LET providers == ProvidersInUse(inp.execution_providers, inp.systemType)
        accelerators == AcceleratorsInUse(inp.accelerators)
        st == PairDevices(1, accelerators, providers.list, inp.lookup,
                          [specs |-> <<>>, processed |-> {}, notSupported |-> {}])
    IN IF ~providers.given
       THEN [status |-> Whitelisted, specs |-> <<>>, notSupported |-> {},
             accelerators |-> accelerators, providers |-> <<>>]
       ELSE [status |-> AssertAcceleratorSpecs(st.specs), specs |-> st.specs,
             notSupported |-> st.notSupported,
             accelerators |-> accelerators, providers |-> providers.list]

\* The lists of at most n elements of S, and those without repetition.
ListsUpTo(S, n) == UNION {[1..k -> S] : k \in 0..n}
DistinctLists(S, n) == {l \in ListsUpTo(S, n) : \A i \in 1..Len(l), j \in 1..Len(l) : l[i] = l[j] => i = j}

\* An Engine is constructed for a target of system type t with the devices
\* a and the execution providers p, while AcceleratorLookup answers by lookup.
ConstructEngine(a, p, t, lookup) ==
    LET inp == [accelerators |-> a, execution_providers |-> p, systemType |-> t, lookup |-> lookup]
    IN /\ ev = NoEvent
       /\ ev' = [op |-> "__init__", input |-> inp, result |-> Construct(inp)]
       /\ UNCHANGED <<diskVars, engineVars, runVars, stepVars, historyVars>>

\* One construction: every target and provider list within the bounds,
\* under every table of supported providers; the system type is varied where
\* it matters, with no providers declared.
NextConstructor ==
    /\ ev = NoEvent
    /\ \E a \in {NotGiven} \cup {Given(x) : x \in ListsUpTo(Devices, MaxDevices)},
          lookup \in [Devices -> SUBSET ExecutionProviders] :
           \/ \E p \in DistinctLists(ExecutionProviders, MaxProviders) :
                  ConstructEngine(a, Given(p), "Local", lookup)
           \/ \E t \in {"AzureML", "Docker"} : ConstructEngine(a, NotGiven, t, lookup)

SpecConstructor == Init /\ [][NextConstructor]_vars

----------------------------------------------------------------------------
\* Properties

AllAccelerators == {AcceleratorSpecs[i] : i \in 1..Len(AcceleratorSpecs)}

\* Engine.run is about to return its outputs.
ReturnReady == pc = "accel" /\ accIdx > Len(AcceleratorSpecs)

\* The last operation was an execution of _run_pass.
PassRan == ev.op = "run_pass"

\* The last operation was a _run_pass that took the miss path and got a number.
Allocated == PassRan /\ ev.num >= 0

\* C1: when a pass is executed with a key for which an earlier execution
\* completed and wrote its sidecar and run entry, the host is not called and
\* the output_model_id is the one of that earlier execution; so no key has two
\* completely cached outputs.
C1_SecondExecutionHits ==
    /\ (PassRan /\ ev.prior) =>
           /\ ev.hit /\ ~ev.hostCalled
           /\ ev.out \in cleanWritten /\ KeyOf(ev.out) = ev.key
    /\ \A a \in cleanWritten, b \in cleanWritten : KeyOf(a) = KeyOf(b) => a = b

C1_Witness == PassRan /\ ev.prior /\ ev.hit /\ ev.model = RealModel /\ ev.out \in hostProduced

\* A search run is in progress that repeats the run before it (same steps),
\* and that run was complete and left a warm cache.
Rerun ==
    /\ cur # NoEngine /\ pc # "constructed"
    /\ lastRun.warm
    /\ ~thisRun.noSearch /\ ~thisRun.evaluationOnly
    /\ thisRun.plan = lastRun.plan

\* The re-run is complete and about to return.
IdenticalRerun == Rerun /\ ReturnReady /\ thisRun.completed = AllAccelerators

\* C2: a search run that repeats the complete run before it on the warm cache
\* never calls the host and allocates no model number, and once complete it
\* has recorded the same footprint nodes (ModelIds with their parents) as
\* that run.
C2_WarmRerunIsFree ==
    /\ Rerun =>
           /\ thisRun.hostCalls = 0
           /\ thisRun.allocs = 0
           /\ thisRun.nodes \subseteq lastRun.nodes
    /\ IdenticalRerun => thisRun.nodes = lastRun.nodes

C2_Witness == IdenticalRerun /\ lastRun.hostCalls > 0 /\ Cardinality(thisRun.nodes) > 2

C4_AllocatedNumberIsFree ==
    Allocated =>
        /\ ev.num \notin ev.taken
        /\ \A id \in dirs \cup DOMAIN sidecar : id.num = ev.num => id = ev.out

C4_Witness ==
    /\ Allocated
    /\ ev.counter \in ev.taken
    /\ \E d \in dirs : d \notin DOMAIN sidecar /\ d.num < ev.num

\* C5 as stated: the number returned is greater than every number present in
\* models/ at the call.
C5_AboveEveryEntry == Allocated => \A m \in ev.taken : ev.num > m

\* C5 amended: the number returned is not below the in-memory counter and is
\* greater than every number that was in models/ when this engine was
\* initialized or that it was given before; entries other producers added
\* since are only skipped, not exceeded.
C5_AboveKnownEntries ==
    Allocated =>
        /\ ev.num >= ev.counter
        /\ \A m \in ev.known : ev.num > m

C5_Witness == Allocated /\ \E m \in ev.taken \ ev.known : ev.num < m

\* C6: a whitelisted exception raised by host.run_pass leaves _run_pass and
\* Engine.run, with search or without: no PRUNED model, no swallowing, the run
\* is over and no later accelerator is begun.
C6_WhitelistedPropagates ==
    (PassRan /\ ev.hostExc = Whitelisted) =>
        /\ ev.raised = Whitelisted
        /\ ev.model = NoModel
        /\ pc = "idle" /\ cur = NoEngine
        /\ lastRun.status = "raised"

C6_Witness ==
    /\ PassRan /\ ev.hostExc = Whitelisted /\ ~ev.noSearch
    /\ ev.acc = AcceleratorSpecs[1]
    /\ lastRun.status = "raised"

\* C7: with search enabled a typed or other non-whitelisted failure of
\* host.run_pass is contained: the output is PRUNED, the step ends with
\* should_prune set and no signal, record_feedback_signal reports that
\* should_prune, and after check_exit_criteria returns the loop asks for the
\* next step.
C7_FailureContainedInSearch ==
    /\ (PassRan /\ ~ev.noSearch /\ ev.hostExc \in {Typed, Other}) =>
           /\ ev.model = Pruned /\ ev.raised = NoExc
           /\ cur = ev.engine
           /\ pc = "feedback" /\ shouldPrune /\ signal = "none"
    /\ (pc = "feedback" /\ shouldPrune) => signal = "none"
    /\ ev.op = "record_feedback_signal" => (ev.pruned = shouldPrune /\ pc = "check_exit")
    /\ (ev.op = "check_exit_criteria" /\ ev.raised = NoExc) => pc = "next_step"

C7_Witness == PassRan /\ ~ev.noSearch /\ ev.hostExc = Other /\ pc = "feedback" /\ shouldPrune

\* C8 as stated: in no-search mode every failure of host.run_pass, typed or
\* not, leaves _run_pass as an exception and gives no PRUNED output.
C8_EveryFailureFatal ==
    (PassRan /\ ev.noSearch /\ ev.hostExc \in {Typed, Other}) =>
        (ev.raised = ev.hostExc /\ ev.model # Pruned)

\* C8 amended: in no-search mode a failure of host.run_pass that is not the
\* typed pass exception leaves _run_pass and the accelerator's run fails; the
\* typed pass exception is contained as PRUNED and run_no_search goes on to
\* its output stage with should_prune set.
C8_UntypedFailureFatal ==
    /\ (PassRan /\ ev.noSearch /\ ev.hostExc = Other) =>
           /\ ev.raised = Other /\ ev.model = NoModel
           /\ pc = "accel"
           /\ ev.acc \in thisRun.failed /\ ev.acc \notin outputs
    /\ (PassRan /\ ev.noSearch /\ ev.hostExc = Typed) =>
           /\ ev.raised = NoExc /\ ev.model = Pruned
           /\ pc = "no_search_output" /\ shouldPrune

C8_Witness == PassRan /\ ev.noSearch /\ ev.hostExc = Typed /\ pc = "no_search_output"

\* C9: on a miss that got its output directory, an invalid search point with
\* search enabled gives PRUNED without a host call; with search disabled the
\* host is called whatever the validation says.
C9_InvalidPointPruned ==
    (PassRan /\ ~ev.hit /\ ev.mkdir) =>
        /\ (~ev.noSearch /\ ~ev.valid) => (ev.model = Pruned /\ ~ev.hostCalled)
        /\ ev.noSearch => ev.hostCalled

C9_Witness == PassRan /\ ~ev.hit /\ ev.mkdir /\ ~ev.noSearch /\ ~ev.valid /\ ev.model = Pruned

C9_WitnessNoSearch == PassRan /\ ~ev.hit /\ ev.mkdir /\ ev.noSearch /\ ~ev.valid /\ ev.hostCalled

\* C10 as stated: the outputs returned are exactly the accelerators whose
\* execution completed.
C10_OutputsAreCompleted == ReturnReady => outputs = thisRun.completed

\* C10 amended: a non-whitelisted exception escaping one accelerator's
\* execution moves the loop to the next accelerator and leaves the failed one
\* out of outputs; at the return every accelerator was processed in order and
\* outputs holds the completed ones except the no-search executions that
\* ended without an output model.
C10_FailedAcceleratorSkipped ==
    /\ (ev.raised = Other /\ ev.op # "none") =>
           /\ cur = ev.engine /\ pc = "accel"
           /\ \E i \in 1..Len(AcceleratorSpecs) : AcceleratorSpecs[i] = ev.acc /\ accIdx = i + 1
           /\ ev.acc \in thisRun.failed /\ ev.acc \notin outputs
    /\ ReturnReady =>
           /\ thisRun.processed = AcceleratorSpecs
           /\ outputs = thisRun.completed \ thisRun.noOutput
           /\ outputs \cap thisRun.failed = {}
           /\ thisRun.completed \cup thisRun.failed = AllAccelerators
           /\ thisRun.noOutput # {} => thisRun.noSearch

C10_Witness ==
    /\ ReturnReady
    /\ AcceleratorSpecs[1] \in thisRun.failed
    /\ AcceleratorSpecs[2] \in outputs

\* C11 as stated: wherever a required evaluator is missing (evaluation_only
\* without self.evaluator_config, a goal that is not a threshold without
\* self.evaluator_config, search without an evaluator for the last pass) the
\* exception leaves Engine.run at once: the run does not go on to the next
\* accelerator or return its outputs.
C11_MissingEvaluatorRaises ==
    ev.missing # "none" =>
        /\ ev.raised = Whitelisted
        /\ pc = "idle" /\ cur = NoEngine
        /\ lastRun.status = "raised"

\* An evaluation_only run without evaluator is about to return normally, with
\* every accelerator left out of its outputs.
C11_Witness ==
    /\ ReturnReady
    /\ evaluationOnly /\ ~setup.evaluator
    /\ outputs = {}
    /\ thisRun.failed = AllAccelerators

\* C20: with search disabled and a registered pass that has a non-empty search
\* space, Engine.run raises the ValueError of register_pass while setting up
\* the passes of the first accelerator: nothing is swallowed, no accelerator's
\* execution is entered, no model number is taken and the host runs no pass.
C20_SearchSpaceRefused ==
    /\ (cur # NoEngine /\ pc # "constructed" /\ noSearch[cur] /\ setup.searchSpace) =>
           /\ pc = "accel" /\ accIdx = 1
           /\ thisRun.processed = <<>> /\ thisRun.failed = {}
           /\ thisRun.hostCalls = 0 /\ thisRun.allocs = 0
    /\ ev.op = "setup_passes" =>
           /\ ev.noSearch /\ ev.raised = Whitelisted
           /\ pc = "idle" /\ cur = NoEngine
           /\ lastRun.status = "raised"

C20_Witness ==
    /\ ev.op = "setup_passes" /\ ev.acc = AcceleratorSpecs[1]
    /\ lastRun.status = "raised"
    /\ runCount = MaxRuns

\* resolve_objectives has been applied.
Resolved == ev.op = "resolve_objectives"

\* Every declared sub-goal of every metric is a threshold, or absent.
OnlyThresholds(metrics) ==
    \A k \in MetricKeys(metrics) :
        SubTypeOf(metrics, k).goal = NoGoal \/ SubTypeOf(metrics, k).goal.type = "threshold"

\* C12: when every declared sub-goal is a threshold or absent, goal resolution
\* makes no baseline evaluation (so the target is not invoked and no metrics
\* are recorded on the input node) and raises nothing.
C12_NoBaselineForThresholds ==
    (Resolved /\ OnlyThresholds(ev.metrics)) =>
        (ev.result.evaluations = 0 /\ ev.result.status = NoExc)

C12_Witness ==
    /\ Resolved /\ OnlyThresholds(ev.metrics)
    /\ Len(ev.metrics) = MaxMetrics
    /\ \A k \in MetricKeys(ev.metrics) : SubTypeOf(ev.metrics, k).goal.type = "threshold"
    /\ ev.result.evaluations = 0

\* C13 as stated: when no sub-goal is of a non-threshold kind, goal resolution
\* returns the declared value for every key that has a goal, and the
\* ObjectiveDict entry of each sub-metric carries that value (none without goal).
C13_ThresholdsReturned ==
    (Resolved /\ OnlyThresholds(ev.metrics)) =>
        /\ \A k \in ResolvedKeys(ev.metrics) :
               SubTypeOf(ev.metrics, k).goal # NoGoal =>
                   /\ k \in DOMAIN ev.result.goals
                   /\ ev.result.goals[k] = Percent * SubTypeOf(ev.metrics, k).goal.value
        /\ \A i \in 1..Len(ev.result.objectives) :
               LET o == ev.result.objectives[i]
                   g == SubTypeOf(ev.metrics, o.key).goal
               IN o.goal = IF g = NoGoal THEN NoValue ELSE Value(Percent * g.value)

\* A threshold goal was declared and its ObjectiveDict entry has no goal.
C13_Witness ==
    /\ Resolved /\ OnlyThresholds(ev.metrics)
    /\ \E i \in 1..Len(ev.result.objectives) :
           /\ SubTypeOf(ev.metrics, ev.result.objectives[i].key).goal.type = "threshold"
           /\ ev.result.objectives[i].goal = NoValue

\* C14 as stated: when some sub-goal, in any position, is not a threshold (and
\* self.evaluator_config is set), exactly one baseline evaluation is made and
\* every goal is resolved against it.
C14_OneBaselineWhenRelative ==
    (/\ Resolved /\ ev.hasEvaluator
     /\ \E k \in ResolvedKeys(ev.metrics) :
            SubTypeOf(ev.metrics, k).goal.type \notin {"none", "threshold"}) =>
        /\ ev.result.evaluations = 1
        /\ ev.result.status = NoExc
        /\ \A k \in ResolvedKeys(ev.metrics) :
               SubTypeOf(ev.metrics, k).goal # NoGoal => k \in DOMAIN ev.result.goals

\* A goal that is not a threshold stands behind a sub-metric without goal and
\* no baseline evaluation was made.
C14_Witness ==
    /\ Resolved /\ ev.hasEvaluator
    /\ Len(ev.metrics) = 1 /\ Len(ev.metrics[1].sub_types) = 2
    /\ ev.metrics[1].sub_types[1].goal = NoGoal
    /\ ev.metrics[1].sub_types[2].goal.type = "max-degradation"
    /\ ev.result.evaluations = 0

\* C15: with baseline b, goal value v >= 0 and m = +1 if higher_is_better else
\* -1, the resolved goal (in hundredths) is v for threshold, b - m*v for
\* max-degradation, b + m*v for min-improvement, b*(1 - m*v/100) for
\* percent-max-degradation and b*(1 + m*v/100) for percent-min-improvement; a
\* max-degradation goal is never on the better side of the baseline and a
\* min-improvement goal never on the worse side.
C15_ResolvedGoalFormula ==
    Resolved =>
        \A k \in DOMAIN ev.result.goals :
            LET st == SubTypeOf(ev.metrics, k)
                r == ev.result.goals[k]
                b == ev.baseline
                v == st.goal.value
                m == IF st.higher_is_better THEN 1 ELSE -1
            IN /\ st.goal.type = "threshold" => r = 100 * v
               /\ st.goal.type = "max-degradation" => (r = 100 * b - 100 * m * v /\ m * (r - 100 * b) <= 0)
               /\ st.goal.type = "min-improvement" => (r = 100 * b + 100 * m * v /\ m * (r - 100 * b) >= 0)
               /\ st.goal.type = "percent-max-degradation" => r = b * 100 - b * m * v
               /\ st.goal.type = "percent-min-improvement" => r = b * 100 + b * m * v

C15_Witness ==
    /\ Resolved /\ ev.baseline = MaxBaseline
    /\ \E k \in DOMAIN ev.result.goals :
           LET st == SubTypeOf(ev.metrics, k)
           IN /\ st.goal.type = "percent-max-degradation" /\ st.goal.value = MaxGoalValue
              /\ ~st.higher_is_better
              /\ ev.result.goals[k] = MaxBaseline * (100 + MaxGoalValue)

\* C16: the ObjectiveDict holds exactly the sub-metrics with priority > 0, each
\* once and with its priority, and its items come in ascending priority.
C16_ObjectivesRanked ==
    (Resolved /\ ev.result.status = NoExc) =>
        LET objs == ev.result.objectives
        IN /\ {objs[i].key : i \in 1..Len(objs)} =
                  {k \in MetricKeys(ev.metrics) : SubTypeOf(ev.metrics, k).priority > 0}
           /\ \A i \in 1..Len(objs), j \in 1..Len(objs) :
                  /\ (i # j) => objs[i].key # objs[j].key
                  /\ (i < j) => objs[i].priority <= objs[j].priority
           /\ \A i \in 1..Len(objs) :
                  objs[i].priority = SubTypeOf(ev.metrics, objs[i].key).priority

\* Priorities 2, 0 and 1 are declared in this order: the ObjectiveDict holds the
\* third sub-metric, then the first.
C16_Witness ==
    /\ Resolved /\ ev.result.status = NoExc
    /\ Len(ev.metrics) = 1
    /\ ev.metrics[1].sub_types = <<SubType(1, 2, TRUE, NoGoal), SubType(2, 0, TRUE, NoGoal),
                                   SubType(3, 1, TRUE, NoGoal)>>
    /\ Len(ev.result.objectives) = 2
    /\ ev.result.objectives[1].key = JointMetricKey(1, 3)
    /\ ev.result.objectives[2].key = JointMetricKey(1, 1)

\* An Engine's constructor ran through the accelerator resolution.
Constructed == ev.op = "__init__" /\ ev.result.status # Whitelisted

SpecSet(specs) == {specs[i] : i \in 1..Len(specs)}

\* Position of provider ep in the declared list.
ProviderIndex(providers, ep) == CHOOSE i \in 1..Len(providers) : providers[i] = ep

CpuListed == \E i \in 1..Len(ev.result.accelerators) : ev.result.accelerators[i] = "cpu"
CpuProviderDeclared == \E i \in 1..Len(ev.result.providers) : ev.result.providers[i] = CPUExecutionProvider
FirstCpu == CHOOSE i \in 1..Len(ev.result.accelerators) :
                /\ ev.result.accelerators[i] = "cpu"
                /\ \A k \in 1..(i - 1) : ev.result.accelerators[k] # "cpu"

\* C18 as stated: with a CPU device anywhere in the list, CPUExecutionProvider
\* is paired with no other device and, the CPU device supporting it, is
\* paired with the CPU device; without a CPU device it is paired with a
\* non-CPU device that supports it.
C18_CpuProviderKeptForCpu ==
    (Constructed /\ CpuProviderDeclared) =>
        /\ CpuListed =>
               /\ \A sp \in SpecSet(ev.result.specs) : sp.ep = CPUExecutionProvider => sp.device = "cpu"
               /\ CPUExecutionProvider \in ev.input.lookup["cpu"] =>
                      \E sp \in SpecSet(ev.result.specs) : sp.ep = CPUExecutionProvider /\ sp.device = "cpu"
        /\ (~CpuListed /\ ev.result.accelerators # <<>>
                /\ CPUExecutionProvider \in ev.input.lookup[ev.result.accelerators[1]]) =>
               \E sp \in SpecSet(ev.result.specs) : sp.ep = CPUExecutionProvider /\ sp.at = 1

\* C18 amended: with a CPU device in the list CPUExecutionProvider is paired
\* with no other device; it is paired with the first CPU device exactly when
\* that device and every device listed before it support it (a device that
\* does not support it rejects it for all later devices, the CPU device
\* included); without a CPU device it is paired with the first device
\* exactly when that device supports it.
C18_CpuProviderUnlessRejected ==
    (Constructed /\ CpuProviderDeclared) =>
        /\ CpuListed =>
               /\ \A sp \in SpecSet(ev.result.specs) : sp.ep = CPUExecutionProvider => sp.device = "cpu"
               /\ (\E sp \in SpecSet(ev.result.specs) : sp.ep = CPUExecutionProvider /\ sp.at = FirstCpu)
                      <=> \A k \in 1..FirstCpu : CPUExecutionProvider \in ev.input.lookup[ev.result.accelerators[k]]
        /\ (~CpuListed /\ ev.result.accelerators # <<>>) =>
               ((\E sp \in SpecSet(ev.result.specs) : sp.ep = CPUExecutionProvider /\ sp.at = 1)
                   <=> CPUExecutionProvider \in ev.input.lookup[ev.result.accelerators[1]])

\* The CPU device comes after a device that supports CPUExecutionProvider:
\* the provider is kept for the CPU device.
C18_Witness ==
    /\ Constructed /\ CpuProviderDeclared
    /\ ev.result.accelerators = <<"gpu", "cpu">>
    /\ CPUExecutionProvider \in ev.input.lookup["gpu"]
    /\ \E sp \in SpecSet(ev.result.specs) :
           sp.ep = CPUExecutionProvider /\ sp.device = "cpu" /\ sp.at = 2

\* C19 as stated: construction fails when the target has no accelerators
\* (none given, or an empty list) or the resolved list is empty, and a
\* constructed engine has a non-empty list of specs.
C19_NoAcceleratorsFails ==
    ev.op = "__init__" =>
        /\ (~ev.input.accelerators.given \/ ev.input.accelerators.list = <<>>
                \/ ev.result.specs = <<>>) => ev.result.status # NoExc
        /\ ev.result.status = NoExc => ev.result.specs # <<>>

\* C19 amended: construction fails exactly when the resolved list of specs is
\* empty (an empty list of accelerators included); a target whose
\* accelerators are not given is treated as one CPU device, so construction
\* succeeds when a declared provider is supported by the CPU; a constructed
\* engine has a non-empty list of specs.
C19_EmptySpecsFail ==
    Constructed =>
        /\ ev.result.status = NoExc <=> ev.result.specs # <<>>
        /\ ev.result.status # NoExc => ev.result.status = AssertionFailed
        /\ ev.input.accelerators = Given(<<>>) => ev.result.status = AssertionFailed
        /\ ~ev.input.accelerators.given =>
               /\ ev.result.accelerators = <<"cpu">>
               /\ (\E i \in 1..Len(ev.result.providers) :
                       ev.result.providers[i] \in ev.input.lookup["cpu"])
                      => (ev.result.status = NoExc
                          /\ \A sp \in SpecSet(ev.result.specs) : sp.device = "cpu")

\* A target without accelerators whose engine is constructed on the CPU.
C19_Witness ==
    /\ Constructed
    /\ ~ev.input.accelerators.given
    /\ ev.result.status = NoExc
    /\ Len(ev.result.specs) = 2

----------------------------------------------------------------------------
\* The output frontier of run_search (lines 516-524) and _get_top_ranked_nodes.

\* Most nodes on a frontier.
MaxNodes == 3

\* Metric values range over 0..MaxValue.
MaxValue == 1

\* Largest output_model_num.
MaxTopK == 3

\* The keys of objective_dict, in priority order.
Objectives == <<"latency", "accuracy">>

\* output_model_num when the strategy gives none.
NoneK == -1

\* Variant: the value is ranked as it is, whatever its direction.
AdjustedIgnoresDirection(v, dir) == v

\* One component of the sort key (lines 1021-1023).
Adjusted(v, dir) == IF dir = 1 THEN v ELSE 0 - v

\* The sort key of a node: one component per key of objective_dict, in its order.
RankKey(node, cmpDirection) == [i \in 1..Len(cmpDirection) |-> Adjusted(node.value[i], cmpDirection[i])]

\* Python's tuple order: a < b.
RECURSIVE TupleLess(_, _)
TupleLess(a, b) ==
    IF a = <<>> \/ b = <<>> THEN a = <<>> /\ b # <<>>
    ELSE IF Head(a) # Head(b) THEN Head(a) < Head(b)
    ELSE TupleLess(Tail(a), Tail(b))

\* sorted(..., reverse=True) is stable: x goes behind every element whose key
\* is not smaller than its own.
RECURSIVE InsertDescending(_, _, _)
InsertDescending(x, sorted, cmpDirection) ==
    IF sorted = <<>> THEN <<x>>
    ELSE IF TupleLess(RankKey(Head(sorted), cmpDirection), RankKey(x, cmpDirection)) THEN <<x>> \o sorted
    ELSE <<Head(sorted)>> \o InsertDescending(x, Tail(sorted), cmpDirection)

RECURSIVE SortedDescending(_, _)
SortedDescending(nodes, cmpDirection) ==
    IF nodes = <<>> THEN <<>>
    ELSE InsertDescending(nodes[Len(nodes)], SortedDescending(SubSeq(nodes, 1, Len(nodes) - 1), cmpDirection), cmpDirection)

\* Engine._get_top_ranked_nodes: sorted_footprint_node_list[:k].
GetTopRankedNodes(nodes, cmpDirection, k) ==
    LET sorted == SortedDescending(nodes, cmpDirection)
    IN  SubSeq(sorted, 1, IF k < Len(sorted) THEN k ELSE Len(sorted))

\* Lines 517-522: the nodes of the frontier that is written and returned.
OutputFrontier(nodes, cmpDirection, k) ==
    IF k = NoneK \/ Len(nodes) <= k THEN nodes ELSE GetTopRankedNodes(nodes, cmpDirection, k)

\* The frontier footprint.nodes.values(): node i carries the values f[i].
FrontierNodes(f) == [i \in DOMAIN f |-> [id |-> i, value |-> f[i]]]

SelectOutput(nodes, cmpDirection, k) ==
    /\ ev = NoEvent
    /\ ev' = [op |-> "output_frontier", frontier |-> nodes, cmp_direction |-> cmpDirection, k |-> k,
              result |-> OutputFrontier(nodes, cmpDirection, k)]
    /\ UNCHANGED <<diskVars, engineVars, runVars, stepVars, historyVars>>

\* One selection: any frontier, any directions, any output_model_num.
NextTopK ==
    /\ ev = NoEvent
    /\ \E n \in 0..MaxNodes, m \in 1..Len(Objectives), k \in {NoneK} \cup 0..MaxTopK :
           \E f \in [1..n -> [1..m -> 0..MaxValue]], cmpDirection \in [1..m -> {1, 0 - 1}] :
               SelectOutput(FrontierNodes(f), cmpDirection, k)

SpecTopK == Init /\ [][NextTopK]_vars

----------------------------------------------------------------------------
\* Engine.register and setup_passes: the registry of pass descriptors.

\* Most calls made on one engine.
MaxCalls == 3

\* register(..., name=None).
NoName == [base |-> "none", id |-> 0]

\* The name f"{base}_{id}", and base itself when id is 0.
NameOf(base, id) == [base |-> base, id |-> id]

\* Pass types that are registered.
PassTypes == {"PassA", "PassB"}

\* Explicit names: one that no pass type generates, and two that PassA generates.
ExplicitNames == {NameOf("p", 0), NameOf("PassA", 0), NameOf("PassA", 1)}

\* An engine on which nothing is registered (lines 60-61).
NoRegistry == [pass_config |-> <<>>, passes |-> <<>>, failed |-> {}, named |-> <<>>]

\* The keys of a dict kept as a sequence of entries.
Keys(d) == {d[i].name : i \in 1..Len(d)}

\* The loop of lines 200-208 and 236-244: the first generated name that is free.
RECURSIVE GeneratedName(_, _, _)
GeneratedName(type, id, taken) ==
    IF NameOf(type, id) \notin taken THEN NameOf(type, id)
    ELSE GeneratedName(type, id + 1, taken)

\* d[name] = entry on a dict: a key that exists keeps its place.
Store(d, entry) ==
    IF entry.name \in Keys(d)
    THEN [i \in 1..Len(d) |-> IF d[i].name = entry.name THEN entry ELSE d[i]]
    ELSE Append(d, entry)

\* Engine.register, as call number c of the engine: the assertion of line 199
\* looks the name up in self.passes, the loop of line 207 in self.pass_config.
Register(reg, type, name, c) ==
    IF name # NoName /\ name \in Keys(reg.passes)
    THEN [reg EXCEPT !.failed = @ \cup {c}, !.named = Append(@, NoName)]
    ELSE LET n == IF name # NoName THEN name ELSE GeneratedName(type, 0, Keys(reg.pass_config))
         IN  [reg EXCEPT !.pass_config = Store(@, [name |-> n, type |-> type, call |-> c]),
                         !.named = Append(@, n)]

\* Engine.register_pass without a name, from setup_passes.
RECURSIVE RegisterPasses(_, _, _)
RegisterPasses(config, i, passes) ==
    IF i > Len(config) THEN passes
    ELSE RegisterPasses(config, i + 1,
             Append(passes, [name |-> GeneratedName(config[i].type, 0, Keys(passes)),
                             type |-> config[i].type, call |-> config[i].call]))

\* Engine.setup_passes: self.passes is cleared and rebuilt from self.pass_config.
SetupPasses(reg) ==
    [reg EXCEPT !.passes = RegisterPasses(reg.pass_config, 1, <<>>), !.named = Append(@, NoName)]

\* The calls an engine receives: register with or without a name, and the
\* setup_passes of a run.
Calls ==
    [op : {"register"}, type : PassTypes, name : ExplicitNames \cup {NoName}] \cup
    {[op |-> "setup_passes", type |-> "none", name |-> NoName]}

RECURSIVE ApplyCalls(_, _, _)
ApplyCalls(reg, calls, c) ==
    IF c > Len(calls) THEN reg
    ELSE ApplyCalls(IF calls[c].op = "register"
                    THEN Register(reg, calls[c].type, calls[c].name, c)
                    ELSE SetupPasses(reg),
                    calls, c + 1)

RegisterCalls(calls) ==
    /\ ev = NoEvent
    /\ ev' = [op |-> "register_calls", calls |-> calls, registry |-> ApplyCalls(NoRegistry, calls, 1)]
    /\ UNCHANGED <<diskVars, engineVars, runVars, stepVars, historyVars>>

\* Every sequence of calls on a fresh engine.
NextRegister ==
    /\ ev = NoEvent
    /\ \E n \in 0..MaxCalls : \E calls \in [1..n -> Calls] : RegisterCalls(calls)

SpecRegister == Init /\ [][NextRegister]_vars

\* The root node of an accelerator's footprint (Engine.run, lines 288-289).
FootprintRoot(acc) == FootprintNode(acc, InputId, NoId, RealModel)

\* Node n of footprint S reaches the input model in at most k parent edges.
RECURSIVE ReachesInput(_, _, _)
ReachesInput(S, n, k) ==
    \/ n = FootprintRoot(n.acc)
    \/ /\ k > 0
       /\ \E q \in S : q.acc = n.acc /\ q.id = n.parent /\ ReachesInput(S, q, k - 1)

FlushedWithoutStep == ev.op = "finalize" /\ plan = <<>> /\ ~evaluationOnly

\* C22 as stated: when the strategy returns none at its first next_step(), no
\* pass was executed, no feedback was recorded, and the footprints file that is
\* written holds the input model's node and nothing else.
C22_OnlyInputNodeFlushed ==
    FlushedWithoutStep =>
        /\ thisRun.allocs = 0 /\ thisRun.hostCalls = 0
        /\ \A n \in thisRun.nodes : n = FootprintRoot(n.acc)
        /\ ev.acc \in thisRun.completed
        /\ ev.nodes = {FootprintRoot(ev.acc)}

\* The footprints file written for a strategy that proposed nothing holds a
\* node of an earlier run of the same Engine object.
C22_Witness ==
    /\ FlushedWithoutStep
    /\ thisRun.allocs = 0
    /\ \E n \in ev.nodes : n.id # InputId

\* The search loop of accelerator acc of engine e has terminated: next_step()
\* returned none, or check_exit_criteria raised its terminal condition.
LoopTerminated(e, acc) ==
    /\ ev.engine = e /\ ev.acc = acc
    /\ \/ ev.op = "next_step" /\ pc = "finalize"
       \/ ev.op = "check_exit_criteria" /\ ev.raised # NoExc

\* The footprints file and the frontier file of accelerator acc were written.
Flushed(e, acc) == ev.op = "finalize" /\ ev.engine = e /\ ev.acc = acc

\* C23 as stated: whenever the search loop terminates, by next_step()
\* returning none or by check_exit_criteria raising, the footprints file and
\* the frontier file of that accelerator are eventually written.
C23_TerminationFlushes ==
    \A e \in EngineIds : \A acc \in AllAccelerators :
        LoopTerminated(e, acc) ~> Flushed(e, acc)

\* check_exit_criteria raised and run() went on to the next accelerator
\* without output for this one.
C23_Witness ==
    /\ ev.op = "check_exit_criteria" /\ ev.raised # NoExc
    /\ pc = "accel"
    /\ ev.acc \notin outputs

\* The part of C23 the code keeps: after next_step() returned none the files
\* are written.
C23_NoneFlushes ==
    \A e \in EngineIds : \A acc \in AllAccelerators :
        (ev.engine = e /\ ev.acc = acc /\ ev.op = "next_step" /\ pc = "finalize") ~> Flushed(e, acc)

\* Properties of the output frontier.
Selected == ev.op = "output_frontier"

ResultIds == {ev.result[i].id : i \in 1..Len(ev.result)}

\* Python's tuple order on the direction-adjusted values, written out: a is
\* ranked strictly above b.
RankedAbove(a, b, cmpDirection) ==
    \E i \in 1..Len(cmpDirection) :
        /\ \A j \in 1..(i - 1) : a.value[j] = b.value[j]
        /\ IF cmpDirection[i] = 1 THEN a.value[i] > b.value[i] ELSE a.value[i] < b.value[i]

\* The frontier has more than K nodes.
Truncating == Selected /\ ev.k # NoneK /\ Len(ev.frontier) > ev.k

\* C24: with output_model_num K and more than K frontier nodes the output is K
\* distinct frontier nodes in descending order of the direction-adjusted
\* tuple, none of them ranked below a node left out (with latency lower-better
\* first and accuracy higher-better second: no kept node has a higher latency
\* than a dropped one, nor the same latency and a lower accuracy); with K none
\* or at most K nodes the whole frontier is output; the output is always made
\* of frontier nodes.
C24_TopRankedOutput ==
    Selected =>
        /\ \A i \in 1..Len(ev.result) : \E j \in 1..Len(ev.frontier) : ev.result[i] = ev.frontier[j]
        /\ ~Truncating => ev.result = ev.frontier
        /\ Truncating =>
               /\ Len(ev.result) = ev.k
               /\ Cardinality(ResultIds) = ev.k
               /\ \A i, j \in 1..Len(ev.result) :
                      i < j => ~RankedAbove(ev.result[j], ev.result[i], ev.cmp_direction)
               /\ \A i \in 1..Len(ev.result) : \A u \in 1..Len(ev.frontier) :
                      ev.frontier[u].id \notin ResultIds =>
                          ~RankedAbove(ev.frontier[u], ev.result[i], ev.cmp_direction)
               /\ ev.cmp_direction = <<0 - 1, 1>> =>
                      \A i \in 1..Len(ev.result) : \A u \in 1..Len(ev.frontier) :
                          ev.frontier[u].id \notin ResultIds =>
                              \/ ev.result[i].value[1] < ev.frontier[u].value[1]
                              \/ /\ ev.result[i].value[1] = ev.frontier[u].value[1]
                                 /\ ev.result[i].value[2] >= ev.frontier[u].value[2]

\* Latency first (lower better), accuracy second: two of three nodes are kept,
\* the tie on latency is broken by accuracy, and the kept nodes are not the
\* first two of the frontier.
C24_Witness ==
    /\ Truncating /\ ev.k = 2 /\ Len(ev.frontier) = 3
    /\ ev.cmp_direction = <<0 - 1, 1>>
    /\ ev.frontier[1].value[1] > ev.frontier[2].value[1]
    /\ ev.frontier[2].value = <<0, 0>> /\ ev.frontier[3].value = <<0, 1>>
    /\ ev.result = <<ev.frontier[3], ev.frontier[2]>>

\* Properties of the registry.
Registered == ev.op = "register_calls"

\* Call c was a register call that did not fail.
Accepted(c) == ev.calls[c].op = "register" /\ c \notin ev.registry.failed

\* C25 as stated: register with an explicit name used by an earlier register
\* call fails; no descriptor of an earlier accepted call has been replaced;
\* a call without a name gets a name distinct from every name registered
\* before it; the descriptors are in the order of their registration.
C25_RegisterKeepsDescriptors ==
    Registered =>
        LET reg == ev.registry
            n == Len(ev.calls)
        IN  /\ \A c \in 1..n, d \in 1..n :
                   (c < d /\ Accepted(c) /\ ev.calls[d].op = "register"
                          /\ ev.calls[d].name # NoName /\ ev.calls[d].name = reg.named[c])
                       => d \in reg.failed
            /\ \A c \in 1..n : Accepted(c) => \E i \in 1..Len(reg.pass_config) : reg.pass_config[i].call = c
            /\ \A c \in 1..n, d \in 1..n :
                   (c < d /\ Accepted(c) /\ Accepted(d) /\ ev.calls[d].name = NoName)
                       => reg.named[d] # reg.named[c]
            /\ \A i, j \in 1..Len(reg.pass_config) :
                   i < j => reg.pass_config[i].call < reg.pass_config[j].call

\* Two register calls with the same explicit name were both accepted, and the
\* descriptor of the first is gone.
C25_Witness ==
    /\ Registered /\ Len(ev.calls) = 2
    /\ ev.calls[1] = [op |-> "register", type |-> "PassA", name |-> NameOf("p", 0)]
    /\ ev.calls[2] = [op |-> "register", type |-> "PassB", name |-> NameOf("p", 0)]
    /\ ev.registry.failed = {}
    /\ ev.registry.pass_config = <<[name |-> NameOf("p", 0), type |-> "PassB", call |-> 2]>>

\* What the code keeps of C25: generated names are new, and descriptors that
\* are not overwritten stay in the order of their registration.
C25_GeneratedNamesDistinct ==
    Registered =>
        LET reg == ev.registry
            n == Len(ev.calls)
        IN  /\ \A c \in 1..n, d \in 1..n :
                   (c < d /\ Accepted(c) /\ Accepted(d) /\ ev.calls[d].name = NoName)
                       => reg.named[d] # reg.named[c]
            /\ \A i, j \in 1..Len(reg.pass_config) :
                   reg.pass_config[i].name = reg.pass_config[j].name => i = j

\* Properties of a step.
StepPasses == plan[stepIdx].passes

\* _run_passes is executing or has just returned.
InStep == pc \in {"run_pass", "evaluate", "feedback", "no_search_output"}

\* The last id collected by _run_passes, or the step's input id.
LastModelId == IF modelIds = <<>> THEN plan[stepIdx].model_id ELSE modelIds[Len(modelIds)]

\* model_ids holds the outputs of the first passes of the step, in the
\* strategy's order, each made from the output of the one before.
ChainedModelIds ==
    \A i \in 1..Len(modelIds) :
        /\ i <= Len(StepPasses)
        /\ modelIds[i].pass = StepPasses[i][1]
        /\ modelIds[i].cfg = StepPasses[i][2]
        /\ modelIds[i].inNum = InputModelNumber(IF i = 1 THEN plan[stepIdx].model_id ELSE modelIds[i - 1])

StepInOrder ==
    InStep =>
        /\ ChainedModelIds
        /\ pc = "run_pass" =>
               /\ ~shouldPrune /\ model # Pruned
               /\ passIdx = Len(modelIds) + 1 /\ passIdx <= Len(StepPasses)
               /\ modelId = LastModelId
        /\ pc = "evaluate" =>
               /\ ~shouldPrune /\ model # Pruned
               /\ Len(modelIds) = Len(StepPasses)
               /\ modelId = LastModelId
        /\ (pc \in {"feedback", "no_search_output"} /\ shouldPrune) =>
               /\ ev.op = "run_pass" /\ ev.pruned /\ model = Pruned
               /\ signal = "none"
               /\ Len(modelIds) = passIdx - 1
               /\ \A i \in 1..Len(modelIds) : modelIds[i] # ev.out
        /\ (pc \in {"feedback", "no_search_output"} /\ ~shouldPrune) =>
               /\ ev.op = "evaluate"
               /\ Len(modelIds) = Len(StepPasses)

\* One pass of the step returned.
PassReturns ==
    (pc = "run_pass" /\ ev'.raised = NoExc /\ ev'.hostExc # Crash) =>
        /\ ev'.op = "run_pass"
        /\ ev'.key = RunKey(StepPasses[passIdx][1], modelId, StepPasses[passIdx][2],
                            RunAccel(StepPasses[passIdx][1], AcceleratorSpecs[accIdx]))
        /\ IF ev'.model = Pruned
           THEN /\ shouldPrune' /\ modelIds' = modelIds /\ signal' = "none"
                /\ pc' \in {"feedback", "no_search_output"}
           ELSE /\ ~shouldPrune' /\ modelIds' = Append(modelIds, ev'.out)
                /\ model' = ev'.model /\ modelId' = ev'.out
                /\ pc' = IF passIdx = Len(StepPasses) THEN "evaluate" ELSE "run_pass"

\* C26: within a step the passes run in the strategy's order, each on the
\* model and ModelId the previous one returned; once a pass yields PRUNED no
\* later pass of the step runs, the evaluator is not invoked, the signal is
\* none, and model_ids holds exactly the outputs of the passes before it.
C26_PrunedEndsStep == []StepInOrder /\ [][PassReturns]_vars

\* The second pass of a step was pruned after the first gave a model.
C26_Witness ==
    /\ pc = "feedback" /\ shouldPrune
    /\ Len(modelIds) = 1 /\ passIdx = 2
    /\ modelIds[1].pass = "PassA"

\* Properties of the search loop.  thisRun counts, for the accelerator in
\* progress, the steps next_step() returned and the calls of
\* record_feedback_signal and check_exit_criteria that returned.
InSearchLoop == pc \in {"next_step", "run_pass", "evaluate", "feedback", "check_exit"} /\ ~noSearch[cur]

\* C27: every step returned by next_step() gets record_feedback_signal once,
\* with its own search point, and then check_exit_criteria once, both before
\* the next next_step(); check_exit_criteria gets k as iteration number for
\* the k-th step; never more than one step is in progress.
C27_FeedbackThenExitCheck ==
    /\ InSearchLoop =>
           /\ thisRun.steps = stepIdx
           /\ thisRun.steps - thisRun.exitChecks \in {0, 1}
           /\ pc = "next_step" =>
                  thisRun.feedbacks = thisRun.steps /\ thisRun.exitChecks = thisRun.steps
           /\ pc \in {"run_pass", "evaluate", "feedback"} =>
                  thisRun.feedbacks = thisRun.steps - 1 /\ thisRun.exitChecks = thisRun.steps - 1
           /\ pc = "check_exit" =>
                  thisRun.feedbacks = thisRun.steps /\ thisRun.exitChecks = thisRun.steps - 1
    /\ (ev.op = "next_step" /\ pc = "finalize") =>
           thisRun.feedbacks = thisRun.steps /\ thisRun.exitChecks = thisRun.steps
    /\ ev.op = "record_feedback_signal" =>
           /\ ev.nth = thisRun.steps /\ ev.nth \in 1..Len(plan)
           /\ ev.point = plan[ev.nth].passes
    /\ ev.op = "check_exit_criteria" => ev.iter = ev.nth /\ ev.iter >= 1

\* The second step of a plan has had its feedback and its exit check.
C27_Witness ==
    /\ pc = "next_step" /\ ev.op = "check_exit_criteria" /\ ev.iter = 2
    /\ thisRun.feedbacks = 2 /\ thisRun.exitChecks = 2

\* Properties of the evaluator facade.
Evaluated == ev.op = "evaluate_model"

\* The ModelId ends with "-<acc>".
EndsWith(id, acc) == id.acc = acc

\* C28: the evaluation cache key is the ModelId followed by the accelerator,
\* appended unless the id already ends with it; when a signal is cached under
\* the key the target is not invoked and the evaluation returns, otherwise
\* the target is invoked; a cached signal exists only for a model that was
\* evaluated under that very accelerator, so keys of different accelerators
\* differ; every returned evaluation, hit or miss, leaves a metrics record
\* with is_goals_met = false in the accelerator's footprint.
C28_EvaluationCachedPerAccelerator ==
    /\ Evaluated =>
           /\ ev.evalKey[1] = [ev.out EXCEPT !.acc = NoAccel]
           /\ ev.evalKey[2][Len(ev.evalKey[2])] = ev.acc
           /\ Len(ev.evalKey[2]) = IF EndsWith(ev.out, ev.acc) \/ ev.out.acc = NoAccel THEN 1 ELSE 2
           /\ ~EndsWith(ev.out, ev.acc) => SubSeq(ev.evalKey[2], 1, Len(ev.evalKey[2]) - 1) = IdSuffix(ev.out)
           /\ ev.prior => (ev.hit /\ ~ev.targetCalled /\ ev.raised = NoExc)
           /\ ~ev.prior => (~ev.hit /\ ev.targetCalled)
           /\ ev.raised = NoExc =>
                  FootprintNodeMetric(ev.acc, ev.out) \in nodeMetrics[ev.engine]
           /\ (ev.raised = NoExc /\ ev.evalWritten) => ev.evalKey \in evaluations
    /\ \A key \in evaluations : \E e \in EngineIds : \E m \in nodeMetrics[e] :
           /\ key[1] = [m.id EXCEPT !.acc = NoAccel]
           /\ key[2] = (IF EndsWith(m.id, m.acc) THEN <<>> ELSE IdSuffix(m.id)) \o <<m.acc>>
    /\ \A e \in EngineIds : \A m \in nodeMetrics[e] : m.is_goals_met = FALSE
    /\ \A id \in EvaluatedIds : \A i, j \in 1..Len(AcceleratorSpecs) :
           i # j => EvaluationKey(id, AcceleratorSpecs[i]) # EvaluationKey(id, AcceleratorSpecs[j])

\* A model whose id ends with the accelerator is evaluated a second time under
\* it and hits, after it was evaluated under the other accelerator as well.
C28_Witness ==
    /\ Evaluated /\ ev.hit /\ ~ev.targetCalled
    /\ ev.out.acc = ev.acc
    /\ \E acc \in AllAccelerators : acc # ev.acc /\ EvaluationKey(ev.out, acc) \in evaluations
    /\ FootprintNodeMetric(ev.acc, ev.out) \in nodeMetrics[ev.engine]

\* Properties of the run cache across accelerators.

\* An earlier accelerator of this run recorded node n for the key of the pass
\* that just ran.
RecordedEarlier(n) ==
    /\ n \in thisRun.nodes
    /\ n.acc # ev.acc
    /\ n.id # InputId /\ KeyOf(n.id) = ev.key

\* C29: an accelerator-agnostic pass has no accelerator in its run key nor in
\* its output ModelId, and once an accelerator of a run has it in the cache
\* every later accelerator of the run hits with the same output id without the
\* host; a pass that is not accelerator-agnostic has the accelerator in both,
\* so its keys and ids under different accelerators differ and it never hits
\* on another accelerator's entry.
C29_AgnosticPassesShareCache ==
    (PassRan /\ ev.out # NoId) =>
        /\ ev.out.pass = ev.key[1]
        /\ IF IsAcceleratorAgnostic(ev.key[1])
           THEN /\ ev.key[4] = NoAccel /\ ev.out.acc = NoAccel
                /\ ~thisRun.faults =>
                       \A n \in footprints[ev.engine] :
                           RecordedEarlier(n) => (ev.hit /\ ~ev.hostCalled /\ ev.out = n.id)
           ELSE /\ ev.key[4] = ev.acc /\ ev.out.acc = ev.acc
                /\ \A n \in footprints[ev.engine] :
                       (n.id.pass = ev.key[1] /\ n.acc # ev.acc) =>
                           (n.id # ev.out /\ KeyOf(n.id) # ev.key)
                /\ ~ev.prior => (~ev.hit /\ ev.counter >= 0)

\* In the first run on an empty cache the agnostic pass hits under the second
\* accelerator on what the host produced under the first, and the other pass
\* then misses.
C29_Witness ==
    /\ PassRan /\ runCount = 1
    /\ ev.acc = AcceleratorSpecs[2]
    /\ ev.key[1] = "PassB" /\ ~ev.hit /\ ev.hostCalled
    /\ \E n \in thisRun.nodes : \E q \in thisRun.nodes :
           /\ n.acc = AcceleratorSpecs[1] /\ q.acc = AcceleratorSpecs[2]
           /\ n.id = q.id /\ n.id.pass = "PassA" /\ n.id \in hostProduced
    /\ thisRun.hostCalls = 3

\* Properties of failing cache reads and writes.

\* _run_pass returned after a lookup that found a run entry whose model has no
\* readable sidecar.
StaleLookupReturned ==
    PassRan /\ ev.stale /\ ev.raised = NoExc /\ ev.hostExc # Crash

\* A failed cache write is not raised and does not change what the step gets.
FailedWritesContained ==
    /\ (PassRan /\ (~ev.modelWritten \/ ~ev.runWritten)) =>
           /\ ev.raised = NoExc /\ ~ev.hit
           /\ ev.model = (IF SkipHost(ev.valid, ev.noSearch) THEN Pruned
                          ELSE HostResult(ev.hostExc, ev.noSearch))
           /\ ev.out.num = ev.num
           /\ FootprintNode(ev.acc, ev.out, ev.out, ev.model).pruned = ev.pruned
           /\ \E n \in footprints[ev.engine] : n.acc = ev.acc /\ n.id = ev.out
           /\ pc \in {"run_pass", "evaluate", "feedback", "no_search_output"}
           /\ (pc \in {"run_pass", "evaluate"}) => (model = ev.model /\ modelId = ev.out)
    /\ (ev.op = "evaluate" /\ ~ev.evalWritten) =>
           /\ ev.raised = NoExc
           /\ signal = "signal"
           /\ pc = AfterStep(noSearch[ev.engine])

\* C30 as stated: failed cache writes are not raised and leave the step's
\* result unchanged, and a lookup that finds a run entry without a readable
\* model allocates a new model number, invokes the host and rewrites the run
\* entry to the new ModelId.
C30_StaleLookupInvokesHost ==
    /\ FailedWritesContained
    /\ (StaleLookupReturned /\ ev.mkdir /\ ev.runWritten) =>
           /\ ~ev.hit /\ ev.num >= 0
           /\ ev.hostCalled
           /\ runs[ev.key] = ev.out

\* C30, amended: as above, but the host is invoked only where a cache miss
\* invokes it (not for an invalid search point in search mode, whose model is
\* PRUNED without the host), and the run entry points at the new ModelId when
\* its write succeeds.
C30_StaleLookupIsMiss ==
    /\ FailedWritesContained
    /\ (PassRan /\ ev.stale) =>
           /\ ~ev.hit /\ ev.num >= 0 /\ ev.num \notin ev.taken
           /\ ev.out.num = ev.num
    /\ (StaleLookupReturned /\ ev.mkdir) =>
           /\ ev.hostCalled = ~SkipHost(ev.valid, ev.noSearch)
           /\ ~ev.hostCalled => ev.model = Pruned
           /\ ev.runWritten => runs[ev.key] = ev.out
           /\ ev.modelWritten => LoadModel(ev.out) = ev.model

\* A stale run entry of a valid search point: the host ran again, and the
\* entry names the new model, whose sidecar is readable.
C30_Witness ==
    /\ StaleLookupReturned /\ ev.valid
    /\ ev.hostCalled /\ ev.hostExc = NoExc
    /\ ev.modelWritten /\ ev.runWritten
    /\ runs[ev.key] = ev.out /\ LoadModel(ev.out) = RealModel
    /\ \E id \in dirs : id # ev.out /\ KeyOf(id) = ev.key /\ LoadModel(id) = NoModel

\* A stale run entry of an invalid search point in search mode: a new number,
\* no host, the rewritten entry.
C30_WitnessInvalidPoint ==
    /\ StaleLookupReturned /\ ~ev.valid /\ ~ev.noSearch
    /\ ~ev.hostCalled /\ ev.num >= 0
    /\ ev.runWritten /\ runs[ev.key] = ev.out

\* Properties of cached PRUNED results.

\* An earlier execution with the key of the pass that just ran ended PRUNED
\* and wrote its sidecar and its run entry; c is its output.
PrunedBefore(c) ==
    /\ c \in cleanWritten
    /\ KeyOf(c) = ev.key
    /\ c \notin hostProduced
    /\ c # ev.out \/ ev.hit

\* C31: a PRUNED result is cached as an empty-object sidecar with a run entry,
\* and every later execution with its key, in the same or a later run on the
\* cache directory, returns PRUNED with the same ModelId from the cache,
\* without the host, and records the child node with is_pruned = true.
C31_PrunedRoundTrips ==
    /\ (PassRan /\ ev.model = Pruned /\ ~ev.hit /\ ev.modelWritten /\ ev.runWritten) =>
           /\ sidecar[ev.out] = EmptyObject
           /\ runs[ev.key] = ev.out
    /\ PassRan => \A c \in cleanWritten :
           PrunedBefore(c) =>
               /\ ev.hit /\ ~ev.hostCalled /\ ev.num = NoEvent.num
               /\ ev.out = c /\ ev.model = Pruned
               /\ \E n \in footprints[ev.engine] :
                      n.acc = ev.acc /\ n.id = c /\ n.pruned
               /\ pc \in {"feedback", "no_search_output"} /\ shouldPrune
    /\ \A id \in DOMAIN sidecar :
           (id \in cleanWritten /\ id \notin hostProduced) => sidecar[id] = EmptyObject

\* A failure of the host that was contained as PRUNED in one run is found in
\* the cache by a later run.
C31_Witness ==
    /\ PassRan /\ ev.hit /\ ev.model = Pruned /\ ev.valid
    /\ runCount = 2
    /\ \E n \in footprints[ev.engine] : n.acc = ev.acc /\ n.id = ev.out /\ n.pruned

\* The PRUNED result of an invalid search point is found again by the second
\* accelerator of the same run.
C31_WitnessSameRun ==
    /\ PassRan /\ ev.hit /\ ev.model = Pruned /\ ~ev.valid
    /\ runCount = 1 /\ ev.acc = AcceleratorSpecs[2]

\* Properties of an exception of host.run_pass that leaves the pass executor.

\* The execution that just ended left _run_pass by an exception of host.run_pass.
HostRaisePropagated == PassRan /\ ev.hostCalled /\ ev.raised # NoExc

\* The step that is taken is such an execution.
HostRaisePropagates == ev'.op = "run_pass" /\ ev'.hostCalled /\ ev'.raised # NoExc /\ pc = "run_pass"

\* What the exception leaves behind: nothing in the sidecars, the run cache
\* and the footprint, the number taken and the output directory made.
NothingCachedOnRaise ==
    /\ HostRaisePropagated =>
           /\ ev.raised = ev.hostExc
           /\ ev.hostExc = Whitelisted \/ (ev.noSearch /\ ev.hostExc = Other)
           /\ ev.out \notin DOMAIN sidecar
           /\ \A k \in DOMAIN runs : runs[k] # ev.out
           /\ \A e \in EngineIds : \A n \in footprints[e] : n.id # ev.out /\ n.parent # ev.out
           /\ ev.out \in dirs /\ ev.out.num = ev.num
           /\ ev.hostExc # Whitelisted => newModelNumber[ev.engine] = ev.num + 1
           /\ ~IsCacheHit(LoadRun(ev.key), LoadModel(LoadRun(ev.key)))
           /\ ev.key \in propagated
    /\ (PassRan /\ (ev.hostExc = Whitelisted \/ (ev.noSearch /\ ev.hostExc = Other))) =>
           HostRaisePropagated

FrameOnRaise ==
    HostRaisePropagates =>
        /\ sidecar' = sidecar /\ runs' = runs /\ footprints' = footprints
        /\ evaluations' = evaluations
        /\ dirs' = dirs \cup {ev'.out} /\ ev'.out \notin dirs
        /\ newModelNumber' = [newModelNumber EXCEPT ![cur] = ev'.num + 1]
        /\ hostProduced' = hostProduced /\ cleanWritten' = cleanWritten

\* C32 as stated: an exception of host.run_pass that leaves the executor
\* (whitelisted in any mode, any failure but the typed one in no-search mode)
\* leaves sidecars, run cache and footprint unchanged, with only the number
\* and the output directory taken, and the next execution with the same key
\* invokes the host again.
C32_RaiseLeavesNoTrace ==
    /\ []NothingCachedOnRaise
    /\ [][FrameOnRaise]_vars
    /\ []((PassRan /\ ev.again /\ ev.mkdir) => ev.hostCalled)

\* C32, amended: as above, and the next execution with the same key misses
\* again: it takes a new number and invokes the host, unless it runs with
\* search enabled on an invalid search point, which is PRUNED without the host.
C32_RaiseLeavesKeyUncached ==
    /\ []NothingCachedOnRaise
    /\ [][FrameOnRaise]_vars
    /\ []((PassRan /\ ev.again) => (~ev.hit /\ ev.num >= 0 /\ ev.num \notin ev.taken))
    /\ []((PassRan /\ ev.again /\ ev.mkdir) =>
              /\ ev.hostCalled = ~SkipHost(ev.valid, ev.noSearch)
              /\ ~ev.hostCalled => ev.model = Pruned)

\* After an exception that left the executor, the key was executed again and
\* the host was invoked again.
C32_Witness ==
    /\ PassRan /\ ev.again /\ ev.hostCalled /\ ev.hostExc = NoExc
    /\ \E d \in dirs : KeyOf(d) = ev.key /\ d # ev.out /\ d \notin DOMAIN sidecar

\* After an exception in no-search mode, the key is executed with search
\* enabled and its invalid search point is pruned without the host.
C32_WitnessPrunedInstead ==
    /\ PassRan /\ ev.again /\ ev.mkdir /\ ~ev.hostCalled
    /\ ~ev.noSearch /\ ~ev.valid /\ ev.model = Pruned

====
